---- MODULE Spec2Model ----
(***************************************************************************)
(* Wide-event accumulator, credential masking and request logging of      *)
(* go-echo-boilerplate (internal/pkg/logger, internal/deliveries/http/    *)
(* middleware).                                                           *)
(*                                                                         *)
(* Go strings are modelled as sequences of bytes. An ASCII byte is the    *)
(* one-character string of its letter; the two bytes of the UTF-8         *)
(* encoding of U+00E9 are "xC3" and "xA9". len(s) is Len, s[:n] is        *)
(* SubSeq(s, 1, n), as in Go where both count bytes.                      *)
(***************************************************************************)
EXTENDS Integers, Sequences, FiniteSets, TLC

\* ------------------------------------------------------------------------
\* Bounds of the model
\* ------------------------------------------------------------------------
MaxCalls == 3
MaxRegistrations == 1
MaxGoroutines == 3

\* ------------------------------------------------------------------------
\* Strings
\* ------------------------------------------------------------------------
UpperCase == <<"A","B","C","D","E","F","G","H","I","J","K","L","M",
               "N","O","P","Q","R","S","T","U","V","W","X","Y","Z">>
LowerCase == <<"a","b","c","d","e","f","g","h","i","j","k","l","m",
               "n","o","p","q","r","s","t","u","v","w","x","y","z">>

\* strings.ToLower on one byte: ASCII upper-case letters are folded, every
\* other byte is kept.
LowerByte(b) ==
  IF \E i \in 1..26 : UpperCase[i] = b
    THEN LowerCase[CHOOSE i \in 1..26 : UpperCase[i] = b]
    ELSE b

ToLower(s) == [i \in 1..Len(s) |-> LowerByte(s[i])]

\* strings.Contains(s, sub)
Contains(s, sub) ==
  \E i \in 0..(Len(s) - Len(sub)) : SubSeq(s, i + 1, i + Len(sub)) = sub

\* Number of characters (runes) of a valid UTF-8 string: the bytes that are
\* not continuation bytes.
ContinuationBytes == {"xA9"}
RuneCount(s) == Cardinality({i \in 1..Len(s) : s[i] \notin ContinuationBytes})

\* The prefix of s made of its first n characters (runes).
RunePrefix(s, n) ==
  LET ends == {j \in 0..Len(s) :
                 /\ Cardinality({i \in 1..j : s[i] \notin ContinuationBytes}) = n
                 /\ (j < Len(s) => s[j + 1] \notin ContinuationBytes)}
  IN  IF ends = {} THEN s ELSE SubSeq(s, 1, CHOOSE j \in ends : TRUE)

\* ------------------------------------------------------------------------
\* Sensitive-field registry (masking.go)
\* ------------------------------------------------------------------------
BuiltinSensitiveFields ==
  << 
     <<"p","a","s","s","w","o","r","d">>,
     <<"p","a","s","s","w","d">>,
     <<"p","w","d">>,
     <<"s","e","c","r","e","t">>,
     <<"t","o","k","e","n">>,
     <<"a","u","t","h">>,
     <<"a","u","t","h","o","r","i","z","a","t","i","o","n">>,
     <<"b","e","a","r","e","r">>,
     <<"a","p","i","_","k","e","y">>,
     <<"a","p","i","k","e","y">>,
     <<"a","p","i","-","k","e","y">>,
     <<"a","c","c","e","s","s","_","t","o","k","e","n">>,
     <<"r","e","f","r","e","s","h","_","t","o","k","e","n">>,
     <<"i","d","_","t","o","k","e","n">>,
     <<"s","e","s","s","i","o","n">>,
     <<"s","e","s","s","i","o","n","_","i","d">>,
     <<"s","e","s","s","i","o","n","i","d">>,
     <<"c","o","o","k","i","e">>,
     <<"c","r","e","d","e","n","t","i","a","l","s">>,
     <<"c","r","e","d","e","n","t","i","a","l">>,
     <<"p","r","i","v","a","t","e","_","k","e","y">>,
     <<"p","r","i","v","a","t","e","k","e","y">>,
     <<"p","u","b","l","i","c","_","k","e","y">>,
     <<"p","u","b","l","i","c","k","e","y">>,
     <<"c","e","r","t">>,
     <<"c","e","r","t","i","f","i","c","a","t","e">>,
     <<"c","r","e","d","i","t","_","c","a","r","d">>,
     <<"c","r","e","d","i","t","c","a","r","d">>,
     <<"c","a","r","d","_","n","u","m","b","e","r">>,
     <<"c","v","v">>,
     <<"c","v","c">>,
     <<"s","s","n">>,
     <<"s","o","c","i","a","l","_","s","e","c","u","r","i","t","y">>,
     <<"a","w","s","_","s","e","c","r","e","t","_","a","c","c","e","s","s","_","k","e","y">>,
     <<"a","w","s","_","a","c","c","e","s","s","_","k","e","y","_","i","d">>,
     <<"a","w","s","_","s","e","s","s","i","o","n","_","t","o","k","e","n">>,
     <<"d","b","_","p","a","s","s","w","o","r","d">>,
     <<"d","a","t","a","b","a","s","e","_","p","a","s","s","w","o","r","d">>,
     <<"c","o","n","n","e","c","t","i","o","n","_","s","t","r","i","n","g">>,
     <<"c","o","n","n","e","c","t","i","o","n","s","t","r","i","n","g">>,
     <<"x","-","a","p","i","-","k","e","y">>,
     <<"x","-","a","u","t","h","-","t","o","k","e","n">>,
     <<"x","-","a","c","c","e","s","s","-","t","o","k","e","n">>,
     <<"x","-","s","e","s","s","i","o","n","-","i","d">>
  >>

MaskString == <<"*","*","*","M","A","S","K","E","D","*","*","*">>
PartialMaskPrefix == 4
Ellipsis == <<".",".",".">>
MaxMaskingDepth == 10
TooLargePlaceholder == <<"[","D","A","T","A","_","T","O","O","_","L","A","R","G","E","_","T","O","_","M","A","S","K","]">>
MaxMaskingDataSize == 1048576

SeqToSet(s) == {s[i] : i \in 1..Len(s)}

\* The map initSensitiveFieldsMap builds from a slice of patterns.
BuildSensitiveFieldsMap(fields) == {ToLower(fields[i]) : i \in 1..Len(fields)}

\* isSensitiveField against a given content of sensitiveFieldsMap: exact
\* match first, then the substring scan over the map's keys.
isSensitiveIn(fieldsMap, fieldName) ==
  LET lowerField == ToLower(fieldName)
  IN  \/ lowerField \in fieldsMap
      \/ \E sensitive \in fieldsMap : Contains(lowerField, sensitive)

\* ------------------------------------------------------------------------
\* Go values handed to the masking functions (interface{} with its dynamic
\* type). A string value is its bytes s followed by pad filler bytes "x";
\* pad lets a string of a megabyte be written down.
\* ------------------------------------------------------------------------
Nil == [k |-> "nil"]
Str(s) == [k |-> "string", s |-> s, pad |-> 0]
PaddedStr(s, n) == [k |-> "string", s |-> s, pad |-> n]
IntVal(n) == [k |-> "int", n |-> n]
Map(m) == [k |-> "map", m |-> m]                \* map[string]interface{}
StringMap(m) == [k |-> "stringmap", sm |-> m]    \* map[string]string
Slice(e) == [k |-> "slice", e |-> e]            \* []interface{}
MapSlice(e) == [k |-> "mapslice", ms |-> e]     \* []map[string]interface{}
Struct(f) == [k |-> "struct", f |-> f]          \* a struct value, f its fields in order
Field(name, tag, v) == [Name |-> name, Tag |-> tag, v |-> v]

EmptyMap == << >>
Put(m, key, value) ==
  [x \in (DOMAIN m) \cup {key} |-> IF x = key THEN value ELSE m[x]]

GoLen(v) == Len(v.s) + v.pad
RECURSIVE Filler(_)
Filler(n) == IF n <= 0 THEN << >> ELSE <<"x">> \o Filler(n - 1)
\* str[:n], for n <= len(str)
GoPrefix(v, n) ==
  IF n <= Len(v.s) THEN SubSeq(v.s, 1, n) ELSE v.s \o Filler(n - Len(v.s))

\* maskValue: the representation of a value found under a sensitive key of
\* a map[string]interface{}.
maskValue(value) ==
  IF value.k = "string"
    THEN IF GoLen(value) > PartialMaskPrefix
           THEN Str(GoPrefix(value, PartialMaskPrefix) \o Ellipsis \o MaskString)
           ELSE Str(MaskString)
    ELSE Str(MaskString)

\* field.IsExported(): the field name starts with an upper-case letter.
IsExported(field) ==
  /\ Len(field.Name) > 0
  /\ \E i \in 1..26 : UpperCase[i] = field.Name[1]

\* strings.Split(jsonTag, ",")[0]
TagName(tag) ==
  IF \E i \in 1..Len(tag) : tag[i] = ","
    THEN LET first == CHOOSE i \in 1..Len(tag) :
                        /\ tag[i] = ","
                        /\ \A j \in 1..(i - 1) : tag[j] # ","
         IN  SubSeq(tag, 1, first - 1)
    ELSE tag

\* The name maskStruct gives a field: the json tag name when there is one
\* other than "-", else the Go field name.
FieldName(field) ==
  IF field.Tag # << >> /\ TagName(field.Tag) # << >> /\ TagName(field.Tag) # <<"-">>
    THEN TagName(field.Tag)
    ELSE field.Name

RECURSIVE maskRecursive(_, _, _, _)
RECURSIVE maskStructLoop(_, _, _, _, _, _)

\* maskMap without the descent into values under non-sensitive keys
maskMapShallow(fm, m, depth, maxDepth) ==
  [key \in DOMAIN m |-> IF isSensitiveIn(fm, key) THEN maskValue(m[key]) ELSE m[key]]
maskMap(fm, m, depth, maxDepth) ==
  [key \in DOMAIN m |->
     IF isSensitiveIn(fm, key)
       THEN maskValue(m[key])
       ELSE maskRecursive(fm, m[key], depth + 1, maxDepth)]

maskStringMap(fm, m) ==
  [key \in DOMAIN m |-> IF isSensitiveIn(fm, key) THEN MaskString ELSE m[key]]

maskSlice(fm, s, depth, maxDepth) ==
  [i \in 1..Len(s) |-> maskRecursive(fm, s[i], depth + 1, maxDepth)]

maskMapSlice(fm, s, depth, maxDepth) ==
  [i \in 1..Len(s) |-> maskMap(fm, s[i], depth + 1, maxDepth)]

\* The loop of maskStruct from field i on, result being the map built so far.
maskStructLoop(fm, fields, i, result, depth, maxDepth) ==
  IF i > Len(fields) THEN result
  ELSE LET field == fields[i]
           fieldName == FieldName(field)
       IN  IF ~IsExported(field)
             THEN maskStructLoop(fm, fields, i + 1, result, depth, maxDepth)
             ELSE maskStructLoop(fm, fields, i + 1,
                    Put(result, fieldName,
                        IF isSensitiveIn(fm, fieldName)
                          THEN Str(MaskString)
                          ELSE maskRecursive(fm, field.v, depth + 1, maxDepth)),
                    depth, maxDepth)

maskStruct(fm, fields, depth, maxDepth) ==
  maskStructLoop(fm, fields, 1, EmptyMap, depth, maxDepth)

\* maskWithReflection: structs are walked, every other kind that reaches it
\* (strings, numbers) is returned as it is.
maskWithReflection(fm, data, depth, maxDepth) ==
  IF data.k = "struct"
    THEN Map(maskStruct(fm, data.f, depth, maxDepth))
    ELSE data

maskRecursive(fm, data, depth, maxDepth) ==
  IF depth > maxDepth THEN data
  ELSE IF data.k = "nil" THEN Nil
  ELSE IF data.k = "map" THEN Map(maskMap(fm, data.m, depth, maxDepth))
  ELSE IF data.k = "stringmap" THEN StringMap(maskStringMap(fm, data.sm))
  ELSE IF data.k = "slice" THEN Slice(maskSlice(fm, data.e, depth, maxDepth))
  ELSE IF data.k = "mapslice" THEN MapSlice(maskMapSlice(fm, data.ms, depth, maxDepth))
  ELSE maskWithReflection(fm, data, depth, maxDepth)

\* estimateSize
estimateSize(data) ==
  IF data.k = "nil" THEN 0
  ELSE IF data.k = "string" THEN GoLen(data)
  ELSE IF data.k = "map" THEN Cardinality(DOMAIN data.m) * 100
  ELSE IF data.k = "stringmap" THEN Cardinality(DOMAIN data.sm) * 50
  ELSE IF data.k = "slice" THEN Len(data.e) * 50
  ELSE IF data.k = "mapslice" THEN Len(data.ms) * 100
  ELSE IF data.k = "struct" THEN Len(data.f) * 50
  ELSE 8

\* MaskSensitiveData without the size ceiling
MaskSensitiveDataNoCeiling(fm, data) == maskRecursive(fm, data, 0, MaxMaskingDepth)
MaskSensitiveDataIn(fm, data) ==
  IF estimateSize(data) > MaxMaskingDataSize
    THEN Str(TooLargePlaceholder)
    ELSE maskRecursive(fm, data, 0, MaxMaskingDepth)

\* ------------------------------------------------------------------------
\* State
\* ------------------------------------------------------------------------
VARIABLES
  SensitiveFields,         \* masking.go: the package-level slice of patterns
  sensitiveFieldsMap,      \* masking.go: the package-level lookup map, as the set of its keys (nil reads as empty)
  sensitiveFieldsMapInit,  \* masking.go: the sync.Once, TRUE once Do has run
  BusinessData,            \* WideEvent.BusinessData
  TraceID,                 \* WideEvent.TraceID
  User,                    \* WideEvent.User
  Error,                   \* WideEvent.Error
  ctxHasEvent,             \* whether the context in use was derived by WithWideEvent
  callLog,                 \* history: the calls made on the event so far, in order
  snapshot,                \* the map returned by the last GetBusinessData
  snapshotAddr,            \* which map object that is
  ctxs,                    \* the contexts made so far, ctxs[c] being context c
  genIn,                   \* affix: the arguments of generator.AccountNumber
  genRand,                 \* the digits rand.Int hands out, in order
  genOut,                  \* what generator.AccountNumber returned
  genValid,                \* what validator.AccountNumber said of that
  genpc,                   \* where the generate-then-validate run is
  gfpc,                    \* where Graceful is
  proc,                    \* proc[p]: where the goroutine running Start of p is
  procKind,                \* procKind[p]: how Start of process p behaves
  sigDone,                 \* SIGINT/SIGTERM received: the signal context is done
  grpDone,                 \* the context of the start group is done
  grpErr,                  \* the start group holds an error
  hooks,                   \* the hooks run so far, with what held when each ran
  maskIn,                  \* the value handed to the masking entry points
  maskOut,                 \* what MaskSensitiveData returned for maskIn
  mu,                      \* WideEvent.mu: the writer holding it and the readers holding it
  gpc,                     \* position of each sub-task goroutine in the method it runs
  gop,                     \* the method call each sub-task goroutine makes
  fatal,                   \* the runtime stopped the program (concurrent map access)
  epc,                     \* position of the request goroutine inside emitWideEvent
  erec,                    \* what emitWideEvent has read from the event so far
  req,                     \* the incoming request: the headers the middleware looks at
  rpc,                     \* where the request is in the middleware chain
  resp,                    \* echo's Response: Status, Size, Committed
  handlerErr,              \* the error travelling back up the middleware chain
  emitted,                 \* the canonical records handed to the logger, in order
  recoverLog,              \* the "Panic recovered" lines RecoverMiddleware logged
  wpc,                     \* position of the goroutine running AddSensitiveField
  widx,                    \* index of the next pattern initSensitiveFieldsMap inserts
  rdpc,                    \* position of the goroutine running isSensitiveField
  rname,                   \* the field name that goroutine asks about
  rresult,                 \* what isSensitiveField returned to it
  rexpect                  \* history: the name matched a pattern that was registered before the call

registryVars == <<SensitiveFields, sensitiveFieldsMap, sensitiveFieldsMapInit>>
eventVars == <<BusinessData, TraceID, User, Error>>
histVars == <<ctxHasEvent, callLog, snapshot, snapshotAddr, ctxs>>

\* Contexts: nil, context.Background() and those context.WithValue derives
\* from a parent, each binding one key.
NilCtx == 0
Background == 1
NoKey == "none"
wideEventKey == "wide_event"
RequestIDKey == "request_id"
OnlyBackground == <<[parent |-> NilCtx, key |-> NoKey, by |-> "Background"]>>

\* The map objects a caller of GetBusinessData can hold: the event's own map
\* (made by NewWideEvent) or the one made by the call; none before a call.
Addr_BusinessData == "w.BusinessData"
Addr_data == "data"
NoAddr == "none"
maskVars == <<maskIn, maskOut>>

concVars == <<mu, gpc, gop, fatal, epc, erec>>

reqVars == <<req, rpc, resp, handlerErr, emitted, recoverLog>>

genVars == <<genIn, genRand, genOut, genValid, genpc>>

gfVars == <<gfpc, proc, procKind, sigDone, grpDone, grpErr, hooks>>

regcVars == <<wpc, widx, rdpc, rname, rresult, rexpect>>

NoString == << >>

Unset == [k |-> "unset"]
IdleRegc ==
  /\ wpc = "off"
  /\ widx = 0
  /\ rdpc = "off"
  /\ rname = NoString
  /\ rresult = FALSE
  /\ rexpect = FALSE
IdleReq ==
  /\ req = Unset
  /\ rpc = "off"
  /\ resp = Unset
  /\ handlerErr = Unset
  /\ emitted = << >>
  /\ recoverLog = << >>
IdleMask == maskIn = Nil /\ maskOut = Unset
IdleGen ==
  /\ genIn = << >>
  /\ genRand = << >>
  /\ genOut = Unset
  /\ genValid = FALSE
  /\ genpc = "off"
IdleGf ==
  /\ gfpc = "off"
  /\ proc = << >>
  /\ procKind = << >>
  /\ sigDone = FALSE
  /\ grpDone = FALSE
  /\ grpErr = FALSE
  /\ hooks = << >>

NoHolder == -1
Unlocked == [w |-> NoHolder, r |-> {}]
IdleConc ==
  /\ mu = Unlocked
  /\ gpc = << >>
  /\ gop = << >>
  /\ fatal = FALSE
  /\ epc = "off"
  /\ erec = Unset

\* The package state when the program starts.
InitRegistry ==
  /\ SensitiveFields = BuiltinSensitiveFields
  /\ sensitiveFieldsMap = {}
  /\ sensitiveFieldsMapInit = FALSE


\* NewWideEvent: an empty BusinessData map, no user, no error, no trace id.
NewWideEvent ==
  /\ BusinessData = EmptyMap
  /\ TraceID = NoString
  /\ User = Nil
  /\ Error = Nil

\* ------------------------------------------------------------------------
\* WideEvent methods (context.go)
\* ------------------------------------------------------------------------
\* Enrich that leaves a key alone when it is already present.
EnrichKeepFirst(bd, key, value) ==
  IF key \in DOMAIN bd THEN bd ELSE Put(bd, key, value)

\* The BusinessData map after w.Enrich(key, value).
Enrich(bd, key, value) == Put(bd, key, value)

\* EnrichMap that leaves the keys already present alone.
EnrichMapKeepFirst(bd, data) ==
  [key \in (DOMAIN bd) \cup (DOMAIN data) |->
     IF key \in DOMAIN bd THEN bd[key] ELSE data[key]]
\* The BusinessData map after w.EnrichMap(data).
EnrichMap(bd, data) ==
  IF Cardinality(DOMAIN data) = 0 THEN bd
  ELSE [key \in (DOMAIN bd) \cup (DOMAIN data) |->
          IF key \in DOMAIN data THEN data[key] ELSE bd[key]]

\* The loop of EnrichMany from argument i on (Go index i - 1).
RECURSIVE EnrichManyLoop(_, _, _)
EnrichManyLoop(bd, keyValuePairs, i) ==
  IF i > Len(keyValuePairs) THEN bd
  ELSE IF keyValuePairs[i].k = "string"
         THEN EnrichManyLoop(Put(bd, keyValuePairs[i].s, keyValuePairs[i + 1]),
                             keyValuePairs, i + 2)
         ELSE EnrichManyLoop(bd, keyValuePairs, i + 2)

\* EnrichMany that writes nothing when the argument count is odd.
EnrichManyOddWritesNothing(bd, keyValuePairs) ==
  IF Len(keyValuePairs) % 2 # 0 \/ Len(keyValuePairs) = 0 THEN bd
  ELSE EnrichManyLoop(bd, keyValuePairs, 1)
\* The BusinessData map after w.EnrichMany(keyValuePairs...).
EnrichMany(bd, keyValuePairs) ==
  LET pairs == IF Len(keyValuePairs) % 2 # 0
                 THEN SubSeq(keyValuePairs, 1, Len(keyValuePairs) - 1)
                 ELSE keyValuePairs
  IN  IF Len(pairs) = 0 THEN bd ELSE EnrichManyLoop(bd, pairs, 1)

\* EnrichWith that takes every argument list for key/value pairs.
EnrichWithPairsOnly(bd, args) ==
  IF Len(args) = 0 THEN bd ELSE EnrichMany(bd, args)
\* The BusinessData map after w.EnrichWith(args...): a single argument of
\* type map[string]any goes to EnrichMap, everything else to EnrichMany.
EnrichWith(bd, args) ==
  IF Len(args) = 0 THEN bd
  ELSE IF Len(args) = 1 /\ args[1].k = "map" THEN EnrichMap(bd, args[1].m)
  ELSE EnrichMany(bd, args)

\* w.GetBusinessData(): a fresh map filled from BusinessData entry by entry.
GetBusinessData(bd) == [key \in DOMAIN bd |-> bd[key]]

\* GetBusinessData that hands out the event's own map.
GetBusinessData_ReturnLive(bd) == [addr |-> Addr_BusinessData, entries |-> bd]
\* The map object w.GetBusinessData() returns: data, made by the call.
GetBusinessData_Return(bd) == [addr |-> Addr_data, entries |-> GetBusinessData(bd)]

\* The caller's operations on a map it holds.
MapDelete(m, key) == [k \in (DOMAIN m) \ {key} |-> m[k]]

\* ------------------------------------------------------------------------
\* SpecAcc: one WideEvent driven by a sequence of method calls
\* ------------------------------------------------------------------------
MaxEntries == 100

Digits == <<"0","1","2","3","4","5","6","7","8","9">>
\* The n-th of a family of distinct keys, "k000", "k001", ...
KeyN(n) == <<"k", Digits[(n \div 100) + 1], Digits[((n \div 10) % 10) + 1], Digits[(n % 10) + 1]>>

K_order_id == <<"o","r","d","e","r","_","i","d">>
K_tier == <<"t","i","e","r">>
AccKeys == {K_order_id, K_tier}
AccValues == {IntVal(1), IntVal(2)}

\* A batch that fills the event to MaxEntries distinct keys in one call.
FullBatch == [key \in {KeyN(n) : n \in 1..MaxEntries} |-> IntVal(1)]

EnrichInputs == (AccKeys \cup {KeyN(MaxEntries + 1)}) \X AccValues
\* A batch with a key of FullBatch and a key outside it.
MixedBatch == [key \in {KeyN(1), KeyN(MaxEntries + 1)} |-> IntVal(2)]

EnrichMapInputs ==
  {EmptyMap, FullBatch, MixedBatch}
    \cup UNION {[d -> AccValues] : d \in (SUBSET AccKeys) \ {{}}}
EnrichManyInputs ==
  { << >>,
    <<Str(K_tier)>>,
    <<Str(K_tier), IntVal(1)>>,
    <<Str(K_tier), IntVal(1), Str(K_order_id)>>,
    <<Str(K_tier), IntVal(1), Str(K_tier), IntVal(2)>>,
    <<IntVal(1), IntVal(2), Str(K_order_id), IntVal(2)>>,
    <<Str(K_order_id), Str(K_tier)>> }

EnrichWithInputs ==
  { << >>,
    <<Map(Put(EmptyMap, K_tier, IntVal(2)))>>,
    <<StringMap(Put(EmptyMap, K_tier, K_order_id))>>,
    <<Str(K_tier)>>,
    <<Str(K_order_id), IntVal(2)>>,
    <<Map(Put(EmptyMap, K_tier, IntVal(2))), IntVal(1)>>,
    <<Str(K_tier), IntVal(1), Str(K_order_id)>>,
    <<Str(K_tier), IntVal(2), Str(K_order_id), IntVal(1)>> }

\* What no method of the event touches.
accFrame == <<registryVars, TraceID, User, Error, ctxHasEvent, ctxs, maskVars, concVars, reqVars, genVars, gfVars, regcVars>>

\* What the caller's map holds after the event's map became bd: the caller
\* sees the writes only if the map it holds is the event's own.
SeenByCaller(bd) == IF snapshotAddr = Addr_BusinessData THEN bd ELSE snapshot

EnrichCall(key, value) ==
  /\ Len(callLog) < MaxCalls
  /\ BusinessData' = Enrich(BusinessData, key, value)
  /\ callLog' = Append(callLog, [op |-> "Enrich", key |-> key, value |-> value])
  /\ snapshot' = SeenByCaller(BusinessData')
  /\ UNCHANGED <<snapshotAddr, accFrame>>

EnrichMapCall(data) ==
  /\ Len(callLog) < MaxCalls
  /\ BusinessData' = EnrichMap(BusinessData, data)
  /\ callLog' = Append(callLog, [op |-> "EnrichMap", data |-> data])
  /\ snapshot' = SeenByCaller(BusinessData')
  /\ UNCHANGED <<snapshotAddr, accFrame>>

EnrichManyCall(args) ==
  /\ Len(callLog) < MaxCalls
  /\ BusinessData' = EnrichMany(BusinessData, args)
  /\ callLog' = Append(callLog, [op |-> "EnrichMany", args |-> args])
  /\ snapshot' = SeenByCaller(BusinessData')
  /\ UNCHANGED <<snapshotAddr, accFrame>>

EnrichWithCall(args) ==
  /\ Len(callLog) < MaxCalls
  /\ BusinessData' = EnrichWith(BusinessData, args)
  /\ callLog' = Append(callLog, [op |-> "EnrichWith", args |-> args])
  /\ snapshot' = SeenByCaller(BusinessData')
  /\ UNCHANGED <<snapshotAddr, accFrame>>

GetBusinessDataCall ==
  /\ Len(callLog) < MaxCalls
  /\ snapshot' = GetBusinessData_Return(BusinessData).entries
  /\ snapshotAddr' = GetBusinessData_Return(BusinessData).addr
  /\ callLog' = Append(callLog, [op |-> "GetBusinessData"])
  /\ UNCHANGED <<BusinessData, accFrame>>

\* The caller writes a key of the map GetBusinessData returned, or deletes
\* it: the event's map changes with it only if it is the same map object.
CallerWrites(key, value) ==
  /\ Len(callLog) < MaxCalls
  /\ snapshotAddr # NoAddr
  /\ snapshot' = Put(snapshot, key, value)
  /\ BusinessData' = IF snapshotAddr = Addr_BusinessData THEN snapshot' ELSE BusinessData
  /\ callLog' = Append(callLog, [op |-> "CallerWrites", key |-> key, value |-> value])
  /\ UNCHANGED <<snapshotAddr, accFrame>>

CallerDeletes(key) ==
  /\ Len(callLog) < MaxCalls
  /\ snapshotAddr # NoAddr
  /\ snapshot' = MapDelete(snapshot, key)
  /\ BusinessData' = IF snapshotAddr = Addr_BusinessData THEN snapshot' ELSE BusinessData
  /\ callLog' = Append(callLog, [op |-> "CallerDeletes", key |-> key])
  /\ UNCHANGED <<snapshotAddr, accFrame>>

vars == <<registryVars, eventVars, histVars, maskVars, concVars, reqVars, regcVars, genVars, gfVars>>

InitAcc ==
  /\ InitRegistry
  /\ NewWideEvent
  /\ ctxHasEvent = TRUE
  /\ callLog = << >>
  /\ snapshot = EmptyMap
  /\ snapshotAddr = NoAddr
  /\ ctxs = OnlyBackground
  /\ IdleGen
  /\ IdleGf
  /\ IdleMask
  /\ IdleConc
  /\ IdleReq
  /\ IdleRegc

NextAcc ==
  \/ \E in \in EnrichInputs : EnrichCall(in[1], in[2])
  \/ \E data \in EnrichMapInputs : EnrichMapCall(data)
  \/ \E args \in EnrichManyInputs : EnrichManyCall(args)
  \/ \E args \in EnrichWithInputs : EnrichWithCall(args)
  \/ GetBusinessDataCall
  \/ CallerWrites(K_tier, IntVal(2))
  \/ CallerDeletes(K_tier)

SpecAcc == InitAcc /\ [][NextAcc]_vars

\* --- what the calls of a history wrote, read off the calls themselves ---
PairIndexes(args) == {i \in 1..Len(args) : i % 2 = 1 /\ i + 1 <= Len(args)}

\* An EnrichWith call whose one argument is a map[string]any.
IsMapForm(call) ==
  call.op = "EnrichWith" /\ Len(call.args) = 1 /\ call.args[1].k = "map"

CallKeys(call) ==
  IF call.op = "Enrich" THEN {call.key}
  ELSE IF call.op = "EnrichMap" THEN DOMAIN call.data
  ELSE IF IsMapForm(call) THEN DOMAIN call.args[1].m
  ELSE IF call.op \in {"EnrichMany", "EnrichWith"}
    THEN {call.args[i].s : i \in {j \in PairIndexes(call.args) : call.args[j].k = "string"}}
  ELSE {}

Max(S) == CHOOSE x \in S : \A y \in S : y <= x

CallValue(call, key) ==
  IF call.op = "Enrich" THEN call.value
  ELSE IF call.op = "EnrichMap" THEN call.data[key]
  ELSE IF IsMapForm(call) THEN call.args[1].m[key]
  ELSE call.args[Max({i \in PairIndexes(call.args) : call.args[i] = Str(key)}) + 1]

TouchedKeys(log) == UNION {CallKeys(log[i]) : i \in 1..Len(log)}

LastWritten(log, key) ==
  CallValue(log[Max({i \in 1..Len(log) : key \in CallKeys(log[i])})], key)

\* C1: BusinessData never holds more than MaxEntries (100) distinct keys: a
\* call that would add a new key to a full map leaves the key set unchanged.
C1_AtMostMaxEntries == Cardinality(DOMAIN BusinessData) <= MaxEntries

\* C2: when the calls made so far touched at most MaxEntries distinct keys,
\* the map a GetBusinessData returns has exactly the touched keys, each with
\* the value of the last call that wrote it.
C2_SnapshotIsLastWritten ==
  (/\ Len(callLog) > 0
   /\ callLog[Len(callLog)].op = "GetBusinessData"
   /\ Cardinality(TouchedKeys(callLog)) <= MaxEntries)
  => snapshot = [key \in TouchedKeys(callLog) |-> LastWritten(callLog, key)]

\* C2 witness: a key written by two calls with different values, then read.
C2_Witness ==
  /\ Len(callLog) = 3
  /\ callLog[3].op = "GetBusinessData"
  /\ callLog[1] = [op |-> "Enrich", key |-> K_tier, value |-> IntVal(1)]
  /\ callLog[2] = [op |-> "EnrichMany", args |-> <<Str(K_order_id), Str(K_tier)>>]
  /\ Cardinality(TouchedKeys(callLog)) <= MaxEntries
  /\ snapshot = [key \in {K_tier, K_order_id} |->
                   IF key = K_tier THEN IntVal(1) ELSE Str(K_tier)]

\* C21: a write to a key overwrites the value the key had, however many keys
\* the event holds: right after an Enrich, EnrichMap or EnrichMany every key
\* of that call has the value the call gave it, new key or not.
C21_OverwriteAlways ==
  (Len(callLog) > 0 /\ callLog[Len(callLog)].op \in {"Enrich", "EnrichMap", "EnrichMany"})
  => \A key \in CallKeys(callLog[Len(callLog)]) :
       /\ key \in DOMAIN BusinessData
       /\ BusinessData[key] = CallValue(callLog[Len(callLog)], key)

\* C21 witness: an EnrichMap with an existing and a new key on an event that
\* holds MaxEntries keys.
C21_Witness ==
  /\ Len(callLog) = 2
  /\ callLog[1] = [op |-> "EnrichMap", data |-> FullBatch]
  /\ callLog[2] = [op |-> "EnrichMap", data |-> MixedBatch]
  /\ BusinessData[KeyN(1)] = IntVal(2)
  /\ BusinessData[KeyN(2)] = IntVal(1)
  /\ Cardinality(DOMAIN BusinessData) = MaxEntries + 1

\* The key/value pairs of an EnrichMany call as a map: the complete pairs
\* whose key is a string, a later pair of a key winning over an earlier one.
PairsAsMap(call) == [key \in CallKeys(call) |-> CallValue(call, key)]

\* C22: an EnrichMany call has the effect of EnrichMap on the map of its
\* complete key/value pairs: with an odd argument count only the trailing
\* unpaired argument is dropped and the pairs before it are written, with an
\* even count every pair is written.
C22_ManyIsMapOfPairs ==
  [][(/\ Len(callLog') = Len(callLog) + 1
      /\ callLog'[Len(callLog')].op = "EnrichMany")
     => BusinessData' = EnrichMap(BusinessData, PairsAsMap(callLog'[Len(callLog')]))]_vars

\* C22 witness: an EnrichMany with three arguments wrote its one pair, over
\* an earlier value of the key, and not its trailing argument.
C22_Witness ==
  /\ Len(callLog) = 2
  /\ callLog[1] = [op |-> "Enrich", key |-> K_tier, value |-> IntVal(2)]
  /\ callLog[2] = [op |-> "EnrichMany", args |-> <<Str(K_tier), IntVal(1), Str(K_order_id)>>]
  /\ BusinessData = Put(EmptyMap, K_tier, IntVal(1))

C24_CopyIsIndependent ==
  [][(/\ Len(callLog') = Len(callLog) + 1
      /\ snapshotAddr # NoAddr)
     => LET op == callLog'[Len(callLog')].op
        IN  /\ op \in {"CallerWrites", "CallerDeletes"} => BusinessData' = BusinessData
            /\ op \in {"Enrich", "EnrichMap", "EnrichMany", "EnrichWith"}
                 => snapshot' = snapshot]_vars

\* C24 witness: a key was deleted from the returned map and is still in the
\* event.
C24_Witness ==
  /\ Len(callLog) = 3
  /\ callLog[1] = [op |-> "Enrich", key |-> K_tier, value |-> IntVal(1)]
  /\ callLog[2].op = "GetBusinessData"
  /\ callLog[3].op = "CallerDeletes"
  /\ snapshot = EmptyMap
  /\ BusinessData = Put(EmptyMap, K_tier, IntVal(1))

\* ------------------------------------------------------------------------
\* SpecMask: the masking entry points and the Safe facade, on inputs drawn
\* from a bounded set of Go values
\* ------------------------------------------------------------------------
MaxSafeCalls == 1

\* The map isSensitiveField reads: built by the sync.Once on first use.
RegistryMap ==
  IF sensitiveFieldsMapInit
    THEN sensitiveFieldsMap
    ELSE BuildSensitiveFieldsMap(SensitiveFields)

isSensitiveField(fieldName) == isSensitiveIn(RegistryMap, fieldName)
MaskSensitiveData(data) == MaskSensitiveDataIn(RegistryMap, data)

\* Whether masking data calls isSensitiveField at least once (and so runs
\* the sync.Once).
RECURSIVE ReachesKey(_, _)
ReachesKey(data, depth) ==
  IF depth > MaxMaskingDepth THEN FALSE
  ELSE IF data.k = "map" THEN DOMAIN data.m # {}
  ELSE IF data.k = "stringmap" THEN DOMAIN data.sm # {}
  ELSE IF data.k = "slice"
    THEN \E i \in 1..Len(data.e) : ReachesKey(data.e[i], depth + 1)
  ELSE IF data.k = "mapslice"
    THEN \E i \in 1..Len(data.ms) : DOMAIN data.ms[i] # {}
  ELSE IF data.k = "struct"
    THEN \E i \in 1..Len(data.f) : IsExported(data.f[i])
  ELSE FALSE

\* The registry after MaskSensitiveData has been called on each of values.
RegistryAfterMask(values) ==
  IF \E data \in values :
       estimateSize(data) <= MaxMaskingDataSize /\ ReachesKey(data, 0)
    THEN /\ sensitiveFieldsMap' = RegistryMap
         /\ sensitiveFieldsMapInit' = TRUE
         /\ UNCHANGED SensitiveFields
    ELSE UNCHANGED registryVars

S_ab == <<"a","b">>
S_abcd == <<"a","b","c","d">>
S_abcde == <<"a","b","c","d","e">>
S_secret123 == <<"s","e","c","r","e","t","1","2","3">>
\* three two-byte characters
S_eee == <<"xC3","xA9","xC3","xA9","xC3","xA9">>

K_password == <<"p","a","s","s","w","o","r","d">>
K_email == <<"e","m","a","i","l">>
K_UserPWD == <<"U","s","e","r","P","W","D">>
K_data == <<"d","a","t","a">>

LeafStrings == {S_ab, S_abcd, S_abcde, S_secret123, S_eee}
Leaves == {Str(s) : s \in LeafStrings} \cup {IntVal(7), Nil}
MaskKeySets == {{K_password}, {K_email}, {K_password, K_email}, {K_UserPWD}}

MapInputs == {Map(m) : m \in UNION {[d -> Leaves] : d \in MaskKeySets}}
StringMapInputs == {StringMap(m) : m \in UNION {[d -> LeafStrings] : d \in MaskKeySets}}
NestedInputs ==
  UNION {{ Map([key \in {K_data} |-> Map([k2 \in {K_password, K_email} |-> v])]),
           Map([key \in {K_data} |-> Slice(<<Map([k2 \in {K_password} |-> v]), v>>)]),
           Map([key \in {K_password} |-> Map([k2 \in {K_email} |-> v])]),
           Slice(<<StringMap([k2 \in {K_password} |-> S_secret123]), v>>) }
         : v \in Leaves}

N_Password == <<"P","a","s","s","w","o","r","d">>
N_Email == <<"E","m","a","i","l">>
N_apiKey == <<"a","p","i","K","e","y">>
N_Token == <<"T","o","k","e","n">>
N_Pwd == <<"P","w","d">>
N_Name == <<"N","a","m","e">>
T_password == <<"p","a","s","s","w","o","r","d">>
T_email_omitempty == <<"e","m","a","i","l",",","o","m","i","t","e","m","p","t","y">>
T_api_key == <<"a","p","i","_","k","e","y">>
T_dash == <<"-">>
T_name == <<"n","a","m","e">>
NoTag == << >>

StructStrings == {S_ab, S_secret123, S_eee}
FieldDecls ==
  { <<N_Password, T_password>>, <<N_Email, T_email_omitempty>>,
    <<N_apiKey, T_api_key>>, <<N_Token, T_dash>>, <<N_Pwd, NoTag>>,
    <<N_Name, T_name>> }
FieldDeclPairs ==
  { <<<<N_Password, T_password>>, <<N_Email, T_email_omitempty>>>>,
    <<<<N_apiKey, T_api_key>>, <<N_Password, T_password>>>>,
    <<<<N_Token, T_dash>>, <<N_Name, T_name>>>>,
    <<<<N_Pwd, NoTag>>, <<N_Email, T_email_omitempty>>>> }
StructInputs ==
  {Struct(<<Field(d[1], d[2], Str(s))>>) : d \in FieldDecls, s \in StructStrings}
    \cup {Struct(<<Field(dd[1][1], dd[1][2], Str(s1)), Field(dd[2][1], dd[2][2], Str(s2))>>)
            : dd \in FieldDeclPairs, s1 \in StructStrings, s2 \in StructStrings}

\* A map nested three levels deep with a sensitive key at the deepest level
\* and a non-sensitive sibling at every level.
ThreeLevel(v, sibling) ==
  Map([key \in {K_email, K_data} |->
     IF key = K_email THEN sibling
     ELSE Map([k2 \in {K_email, K_data} |->
            IF k2 = K_email THEN sibling
            ELSE Map([k3 \in {K_email, K_password} |->
                   IF k3 = K_email THEN sibling ELSE v])])])

\* Maps nested n levels below the top one, each level holding a sensitive
\* key and a non-sensitive key.
RECURSIVE Chain(_, _)
Chain(n, leaf) ==
  IF n = 0
    THEN Map([key \in {K_password, K_email} |-> leaf])
    ELSE Map([key \in {K_password, K_email, K_data} |->
                IF key = K_data THEN Chain(n - 1, leaf) ELSE leaf])

\* bottom wrapped in n maps: bottom is the value maskRecursive gets at depth n.
RECURSIVE ChainTo(_, _)
ChainTo(n, bottom) ==
  IF n = 0 THEN bottom ELSE Map([key \in {K_data} |-> ChainTo(n - 1, bottom)])

DeepBottoms ==
  LET secret == [key \in {K_password, K_email} |-> Str(S_secret123)]
  IN  { MapSlice(<<secret>>), Slice(<<Map(secret)>>), StringMap([key \in {K_password} |-> S_secret123]),
        Struct(<<Field(N_Password, T_password, Str(S_secret123))>>) }

DeepInputs ==
  {ThreeLevel(v, Str(S_abcde)) : v \in Leaves}
    \cup {Chain(n, Str(S_secret123)) : n \in (MaxMaskingDepth - 1)..(MaxMaskingDepth + 2)}
    \cup {ChainTo(n, bottom) : n \in {0, MaxMaskingDepth - 1, MaxMaskingDepth, MaxMaskingDepth + 1},
                                bottom \in DeepBottoms}

MaskInputs ==
  Leaves \cup MapInputs \cup StringMapInputs \cup NestedInputs \cup StructInputs \cup DeepInputs

SafeKeys == {K_password, K_UserPWD, K_data}

\* The BusinessData map after EnrichContext(ctx, key, value).
EnrichContext(bd, hasEvent, key, value) ==
  IF hasEvent THEN Enrich(bd, key, value) ELSE bd

\* The BusinessData map after EnrichContextMap(ctx, data).
EnrichContextMap(bd, hasEvent, data) ==
  IF hasEvent THEN EnrichMap(bd, data) ELSE bd

\* The BusinessData map after EnrichContextMany(ctx, keyValuePairs...).
EnrichContextMany(bd, hasEvent, keyValuePairs) ==
  IF hasEvent THEN EnrichMany(bd, keyValuePairs) ELSE bd

\* The BusinessData map after EnrichContextWith(ctx, args...).
EnrichContextWith(bd, hasEvent, args) ==
  IF hasEvent THEN EnrichWith(bd, args) ELSE bd

\* The BusinessData map after EnrichContextSafe(ctx, key, value).
EnrichContextSafe(bd, hasEvent, key, value) ==
  EnrichContext(bd, hasEvent, key, MaskSensitiveData(value))

\* The BusinessData map after EnrichContextMapSafe(ctx, data), data being
\* the map[string]any inside the value.
EnrichContextMapSafe(bd, hasEvent, data) ==
  LET masked == MaskSensitiveData(data)
  IN  IF masked.k = "map" THEN EnrichContextMap(bd, hasEvent, masked.m) ELSE bd

RECURSIVE EnrichContextWithSafeLoop(_, _, _, _)
EnrichContextWithSafeLoop(bd, hasEvent, args, i) ==
  IF i > Len(args) THEN bd
  ELSE IF args[i].k = "string"
         THEN EnrichContextWithSafeLoop(
                EnrichContextSafe(bd, hasEvent, args[i].s, args[i + 1]),
                hasEvent, args, i + 2)
         ELSE EnrichContextWithSafeLoop(bd, hasEvent, args, i + 2)

\* The BusinessData map after EnrichContextWithSafe(ctx, args...).
EnrichContextWithSafe(bd, hasEvent, args) ==
  IF Len(args) = 0 THEN bd
  ELSE IF Len(args) = 1 /\ args[1].k = "map"
         THEN EnrichContextMapSafe(bd, hasEvent, args[1])
  ELSE IF Len(args) % 2 = 0
         THEN EnrichContextWithSafeLoop(bd, hasEvent, args, 1)
  ELSE bd

\* MaskHeaders(headers), headers being a map[string]string.
MaskHeaders(headers) == maskStringMap(RegistryMap, headers)

\* The BusinessData map after EnrichContextHeaders(ctx, key, headers).
EnrichContextHeaders(bd, hasEvent, key, headers) ==
  EnrichContext(bd, hasEvent, key, StringMap(MaskHeaders(headers)))

\* The event's User after SetUserContext(ctx, user).
SetUserContext(u, hasEvent, user) == IF hasEvent THEN user ELSE u

\* The event's Error after SetErrorContext(ctx, errCtx).
SetErrorContext(e, hasEvent, errCtx) == IF hasEvent THEN errCtx ELSE e

maskFrame == <<TraceID, User, Error, ctxHasEvent, snapshot, snapshotAddr, ctxs, maskIn, concVars, reqVars, genVars, gfVars, regcVars>>

MaskSensitiveDataCall ==
  /\ Len(callLog) < MaxSafeCalls
  /\ maskOut = Unset
  /\ maskOut' = MaskSensitiveData(maskIn)
  /\ RegistryAfterMask({maskIn})
  /\ callLog' = Append(callLog, [op |-> "MaskSensitiveData"])
  /\ UNCHANGED <<BusinessData, maskFrame>>

EnrichContextSafeCall(key) ==
  /\ Len(callLog) < MaxSafeCalls
  /\ BusinessData' = EnrichContextSafe(BusinessData, ctxHasEvent, key, maskIn)
  /\ RegistryAfterMask({maskIn})
  /\ callLog' = Append(callLog, [op |-> "EnrichContextSafe", key |-> key, value |-> maskIn])
  /\ UNCHANGED <<maskOut, maskFrame>>

\* The argument lists tried with EnrichContextWithSafe, for a key and the
\* value maskIn.
WithSafeArgs(key) ==
  { <<maskIn>>,
    <<Str(key), maskIn>>,
    <<Str(K_email), Str(S_ab), Str(key), maskIn>>,
    <<Str(key), maskIn, Str(K_email)>> }

\* The values EnrichContextWithSafe hands to MaskSensitiveData.
MaskedByWithSafe(args) ==
  IF Len(args) = 1 /\ args[1].k = "map" THEN {args[1]}
  ELSE IF Len(args) % 2 = 0
    THEN {args[i + 1] : i \in {j \in PairIndexes(args) : args[j].k = "string"}}
  ELSE {}

EnrichContextWithSafeCall(args) ==
  /\ Len(callLog) < MaxSafeCalls
  /\ BusinessData' = EnrichContextWithSafe(BusinessData, ctxHasEvent, args)
  /\ RegistryAfterMask(MaskedByWithSafe(args))
  /\ callLog' = Append(callLog, [op |-> "EnrichContextWithSafe", args |-> args])
  /\ UNCHANGED <<maskOut, maskFrame>>

InitMask ==
  /\ InitRegistry
  /\ NewWideEvent
  /\ ctxHasEvent \in BOOLEAN
  /\ callLog = << >>
  /\ snapshot = EmptyMap
  /\ snapshotAddr = NoAddr
  /\ ctxs = OnlyBackground
  /\ IdleGen
  /\ IdleGf
  /\ maskIn \in MaskInputs
  /\ maskOut = Unset
  /\ IdleConc
  /\ IdleReq
  /\ IdleRegc

NextMask ==
  \/ MaskSensitiveDataCall
  \/ \E key \in SafeKeys : EnrichContextSafeCall(key)
  \/ \E key \in SafeKeys : \E args \in WithSafeArgs(key) : EnrichContextWithSafeCall(args)

SpecMask == InitMask /\ [][NextMask]_vars

\* --- the masked form the documentation describes ---
DocumentedMask(value) ==
  IF value.k = "string" /\ RuneCount(value.s) > 4
    THEN Str(RunePrefix(value.s, 4) \o Ellipsis \o MaskString)
    ELSE Str(MaskString)

IsScalar(value) == value.k \in {"string", "int", "nil"}

\* The exported fields of a struct as the map keyed by their names.
StructAsMap(fields) ==
  LET exported == {i \in 1..Len(fields) : IsExported(fields[i])}
      names == {FieldName(fields[i]) : i \in exported}
  IN  [name \in names |->
         fields[Max({i \in exported : FieldName(fields[i]) = name})].v]

\* The key/value entries of a map-like value, values as interface{} values.
Entries(data) ==
  IF data.k = "map" THEN data.m
  ELSE IF data.k = "stringmap" THEN [key \in DOMAIN data.sm |-> Str(data.sm[key])]
  ELSE StructAsMap(data.f)

\* C8: in the result of MaskSensitiveData, the value under a sensitive key is
\* the first 4 characters + "..." + the mask marker for a string longer than
\* 4 characters and the mask marker alone otherwise; a scalar under a
\* non-sensitive key is unchanged.
C8_MaskedForm ==
  (maskOut # Unset /\ maskIn.k \in {"map", "stringmap", "struct"})
  => \A key \in DOMAIN Entries(maskIn) :
       LET value == Entries(maskIn)[key]
           result == Entries(maskOut)[key]
       IN  /\ isSensitiveField(key) => result = DocumentedMask(value)
           /\ (~isSensitiveField(key) /\ IsScalar(value)) => result = value

\* C9: after EnrichContextSafe(ctx, key, s) with a sensitive key and a string
\* s (and after EnrichContextWithSafe with such a pair), the value stored
\* under key is a masked representation, never s itself.
LastCall == callLog[Len(callLog)]
C9_SafeMasksSensitiveKey ==
  (Len(callLog) > 0 /\ ctxHasEvent)
  => /\ (/\ LastCall.op = "EnrichContextSafe"
         /\ isSensitiveField(LastCall.key)
         /\ LastCall.value.k = "string")
        => /\ BusinessData[LastCall.key] # LastCall.value
           /\ BusinessData[LastCall.key] = DocumentedMask(LastCall.value)
     /\ (LastCall.op = "EnrichContextWithSafe" /\ Len(LastCall.args) % 2 = 0)
        => \A i \in PairIndexes(LastCall.args) :
             (/\ LastCall.args[i].k = "string"
              /\ isSensitiveField(LastCall.args[i].s)
              /\ LastCall.args[i + 1].k = "string"
              /\ \A j \in PairIndexes(LastCall.args) :
                   j > i => LastCall.args[j] # LastCall.args[i])
             => BusinessData[LastCall.args[i].s] # LastCall.args[i + 1]

\* C10: MaskSensitiveData gives a struct the result it gives the
\* map[string]interface{} of the struct's exported fields.
C10_StructLikeMap ==
  (maskOut # Unset /\ maskIn.k = "struct")
  => maskOut = MaskSensitiveData(Map(StructAsMap(maskIn.f)))

\* --- nested maps ---
\* data is a map[string]interface{} whose values are scalars or such maps.
RECURSIVE IsPlainNested(_)
IsPlainNested(data) ==
  /\ data.k = "map"
  /\ \A key \in DOMAIN data.m : IsScalar(data.m[key]) \/ IsPlainNested(data.m[key])

\* The depth of the deepest map of a nested map, the top one being at 0.
RECURSIVE NestingDepth(_)
NestingDepth(data) ==
  LET below == {key \in DOMAIN data.m : data.m[key].k = "map"}
  IN  IF below = {} THEN 0
      ELSE 1 + Max({NestingDepth(data.m[key]) : key \in below})

\* value is a masked representation: a string ending in the mask marker.
IsMasked(value) ==
  /\ value.k = "string"
  /\ Len(value.s) >= Len(MaskString)
  /\ SubSeq(value.s, Len(value.s) - Len(MaskString) + 1, Len(value.s)) = MaskString

\* out has the keys of in at every level, masked values under the sensitive
\* keys and the values of in under all others.
RECURSIVE OnlySensitiveMasked(_, _)
OnlySensitiveMasked(in, out) ==
  /\ out.k = "map"
  /\ DOMAIN out.m = DOMAIN in.m
  /\ \A key \in DOMAIN in.m :
       IF isSensitiveField(key) THEN IsMasked(out.m[key])
       ELSE IF in.m[key].k = "map" THEN OnlySensitiveMasked(in.m[key], out.m[key])
       ELSE out.m[key] = in.m[key]

\* C11: for a nested map[string]interface{} of depth at most 10,
\* MaskSensitiveData returns a structure with the same keys at every level,
\* a masked value under every sensitive key and the input's value under
\* every other key, siblings of masked keys included.
C11_NestedFrame ==
  (maskOut # Unset /\ IsPlainNested(maskIn) /\ NestingDepth(maskIn) <= MaxMaskingDepth)
  => OnlySensitiveMasked(maskIn, maskOut)

C11_Witness ==
  /\ maskIn = ThreeLevel(Str(S_secret123), Str(S_abcde))
  /\ maskOut = ThreeLevel(Str(<<"s","e","c","r",".",".",".">> \o MaskString), Str(S_abcde))

\* --- the depth cap ---
\* out is what the cap allows for in, a value at the given depth: unchanged
\* beyond MaxMaskingDepth, and up to it a container with a masked value under
\* each sensitive key and, under the others, what the cap allows one level
\* further down.
RECURSIVE AgreesWithCap(_, _, _)
AgreesWithCap(in, out, depth) ==
  IF depth > MaxMaskingDepth THEN out = in
  ELSE IF in.k = "map"
    THEN /\ out.k = "map"
         /\ DOMAIN out.m = DOMAIN in.m
         /\ \A key \in DOMAIN in.m :
              IF isSensitiveField(key) THEN IsMasked(out.m[key])
              ELSE AgreesWithCap(in.m[key], out.m[key], depth + 1)
  ELSE IF in.k = "stringmap"
    THEN /\ out.k = "stringmap"
         /\ DOMAIN out.sm = DOMAIN in.sm
         /\ \A key \in DOMAIN in.sm :
              IF isSensitiveField(key) THEN IsMasked(Str(out.sm[key]))
              ELSE out.sm[key] = in.sm[key]
  ELSE IF in.k = "slice"
    THEN /\ out.k = "slice"
         /\ Len(out.e) = Len(in.e)
         /\ \A i \in 1..Len(in.e) : AgreesWithCap(in.e[i], out.e[i], depth + 1)
  ELSE IF in.k = "mapslice"
    THEN /\ out.k = "mapslice"
         /\ Len(out.ms) = Len(in.ms)
         /\ \A i \in 1..Len(in.ms) : AgreesWithCap(Map(in.ms[i]), Map(out.ms[i]), depth + 1)
  ELSE IF in.k = "struct"
    THEN /\ out.k = "map"
         /\ DOMAIN out.m = DOMAIN StructAsMap(in.f)
         /\ \A name \in DOMAIN out.m :
              IF isSensitiveField(name) THEN IsMasked(out.m[name])
              ELSE AgreesWithCap(StructAsMap(in.f)[name], out.m[name], depth + 1)
  ELSE out = in

\* C12: MaskSensitiveData masks the sensitive keys of every container at
\* depth 0..10 (top-level value at depth 0, one more per enclosing map, slice
\* or struct) and returns whatever lies deeper than 10 unchanged.
C12_DepthCap ==
  (maskOut # Unset /\ estimateSize(maskIn) <= MaxMaskingDataSize)
  => AgreesWithCap(maskIn, maskOut, 0)

\* C30: EnrichContextWithSafe writes the keys EnrichContextWith writes for
\* the same arguments; for an odd number of arguments both drop the trailing
\* one only and write the pairs before it.
C30_SafeWritesSameKeys ==
  [][(/\ Len(callLog') = Len(callLog) + 1
      /\ callLog'[Len(callLog')].op = "EnrichContextWithSafe")
     => DOMAIN BusinessData'
          = DOMAIN EnrichContextWith(BusinessData, ctxHasEvent, callLog'[Len(callLog')].args)]_vars

\* ------------------------------------------------------------------------
\* SpecLarge: MaskSensitiveData and EnrichContextMapSafe on values around the
\* size ceiling
\* ------------------------------------------------------------------------
\* The n-th of a family of distinct non-sensitive keys, "k00000", "k00001", ...
BigKey(n) ==
  <<"k", Digits[(n \div 10000) + 1], Digits[((n \div 1000) % 10) + 1],
    Digits[((n \div 100) % 10) + 1], Digits[((n \div 10) % 10) + 1], Digits[(n % 10) + 1]>>

\* A map[string]interface{} of n entries, one of them under "password".
MapOfSize(n) ==
  Map([key \in {BigKey(i) : i \in 1..(n - 1)} \cup {K_password} |->
         IF key = K_password THEN Str(S_secret123) ELSE IntVal(1)])

\* The largest number of map entries estimateSize puts at the ceiling or below.
CeilingEntries == MaxMaskingDataSize \div 100

LargeInputs ==
  { PaddedStr(S_ab, MaxMaskingDataSize - 2), PaddedStr(S_ab, MaxMaskingDataSize - 1),
    MapOfSize(CeilingEntries), MapOfSize(CeilingEntries + 1) }

EnrichContextMapSafeCall ==
  /\ Len(callLog) < MaxSafeCalls
  /\ maskIn.k = "map"
  /\ BusinessData' = EnrichContextMapSafe(BusinessData, ctxHasEvent, maskIn)
  /\ RegistryAfterMask({maskIn})
  /\ callLog' = Append(callLog, [op |-> "EnrichContextMapSafe", value |-> maskIn])
  /\ UNCHANGED <<maskOut, maskFrame>>

InitLarge ==
  /\ InitRegistry
  /\ NewWideEvent
  /\ ctxHasEvent \in BOOLEAN
  /\ callLog = << >>
  /\ snapshot = EmptyMap
  /\ snapshotAddr = NoAddr
  /\ ctxs = OnlyBackground
  /\ IdleGen
  /\ IdleGf
  /\ maskIn \in LargeInputs \cup MapInputs \cup Leaves
  /\ maskOut = Unset
  /\ IdleConc
  /\ IdleReq
  /\ IdleRegc

NextLarge ==
  \/ MaskSensitiveDataCall
  \/ EnrichContextMapSafeCall

SpecLarge == InitLarge /\ [][NextLarge]_vars

C14_MapSafeNeverLosesInput ==
  (/\ Len(callLog) > 0
   /\ LastCall.op = "EnrichContextMapSafe"
   /\ ctxHasEvent
   /\ DOMAIN LastCall.value.m # {})
  => IF estimateSize(LastCall.value) > MaxMaskingDataSize
       THEN \E key \in DOMAIN BusinessData : BusinessData[key] = Str(TooLargePlaceholder)
       ELSE \A key \in DOMAIN LastCall.value.m :
              /\ key \in DOMAIN BusinessData
              /\ BusinessData[key] =
                   maskRecursive(RegistryMap, LastCall.value, 0, MaxMaskingDepth).m[key]

\* ------------------------------------------------------------------------
\* SpecConc: sub-task goroutines calling the event's setters while the
\* request goroutine runs emitWideEvent on the same event
\* ------------------------------------------------------------------------
Goroutines == 1..MaxGoroutines
EmitterId == 0

UserOf(g) == [k |-> "user", ID |-> <<"u", Digits[g + 1]>>]
ErrorOf(g) == [k |-> "error", Type |-> <<"D","a","t","a","b","a","s","e","E","r","r","o","r">>,
               Message |-> <<"m", Digits[g + 1]>>, Retriable |-> TRUE]
TraceOf(g) == <<"t", Digits[g + 1]>>
Torn == [k |-> "torn"]

\* The calls a sub-task may make; each sub-task uses a key of its own.
GoOps(g) ==
  { [op |-> "Enrich", key |-> KeyN(g), value |-> IntVal(g)],
    [op |-> "SetTraceID", traceID |-> TraceOf(g)],
    [op |-> "SetUser", user |-> UserOf(g)],
    [op |-> "SetError", errCtx |-> ErrorOf(g)] }

\* The field of the event a call writes.
FieldOf(o) ==
  IF o.op = "Enrich" THEN "BusinessData"
  ELSE IF o.op = "SetTraceID" THEN "TraceID"
  ELSE IF o.op = "SetUser" THEN "User"
  ELSE "Error"

\* sync.RWMutex: Lock is granted when nobody holds the mutex.
CanLockNoExclusion(m) == TRUE
CanLock(m) == m.w = NoHolder /\ m.r = {}
\* RLock is granted when no writer holds the mutex.
CanRLock(m) == m.w = NoHolder

\* Goroutine g is between its Lock and its Unlock.
InWriteSection(g) == gpc[g] \in {"write", "unlock"}

\* The emitter is between the RLock and the RUnlock of the getter of field.
EmitterReading(field) ==
  \/ field = "Error" /\ epc \in {"GetError_read", "GetError_unlock"}
  \/ field = "User" /\ epc \in {"GetUser_read", "GetUser_unlock"}
  \/ field = "BusinessData" /\ epc \in {"GetBusinessData_read", "GetBusinessData_unlock"}
  \/ field = "TraceID" /\ epc = "TraceID_read"

\* The write of g is concurrent with another access of the same field: a
\* data race.
WriteRaces(g) ==
  \/ \E h \in Goroutines \ {g} :
       InWriteSection(h) /\ FieldOf(gop[h]) = FieldOf(gop[g])
  \/ EmitterReading(FieldOf(gop[g]))

concFrame == <<registryVars, histVars, maskVars, reqVars, genVars, gfVars, regcVars>>

\* A sub-task starts one of the setters.
Start(g, o) ==
  /\ ~fatal
  /\ gpc[g] = "idle"
  /\ gop' = [gop EXCEPT ![g] = o]
  /\ gpc' = [gpc EXCEPT ![g] = "lock"]
  /\ UNCHANGED <<eventVars, mu, fatal, epc, erec, concFrame>>

\* w.mu.Lock()
Lock(g) ==
  /\ ~fatal
  /\ gpc[g] = "lock"
  /\ CanLock(mu)
  /\ mu' = [mu EXCEPT !.w = g]
  /\ gpc' = [gpc EXCEPT ![g] = "write"]
  /\ UNCHANGED <<eventVars, gop, fatal, epc, erec, concFrame>>

\* The assignment in the body of the setter. A racing map write may be lost
\* or stop the program ("fatal error: concurrent map writes"). The call is
\* added to the history at the moment it takes effect.
Write(g) ==
  /\ ~fatal
  /\ gpc[g] = "write"
  /\ LET o == gop[g] IN
       /\ BusinessData' \in
            IF o.op # "Enrich" THEN {BusinessData}
            ELSE IF WriteRaces(g)
              THEN {Enrich(BusinessData, o.key, o.value), BusinessData}
              ELSE {Enrich(BusinessData, o.key, o.value)}
       /\ fatal' \in IF o.op = "Enrich" /\ WriteRaces(g) THEN BOOLEAN ELSE {FALSE}
       /\ TraceID' = IF o.op = "SetTraceID" THEN o.traceID ELSE TraceID
       /\ User' = IF o.op = "SetUser" THEN o.user ELSE User
       /\ Error' = IF o.op = "SetError" THEN o.errCtx ELSE Error
  /\ gpc' = [gpc EXCEPT ![g] = "unlock"]
  /\ callLog' = Append(callLog, gop[g])
  /\ UNCHANGED <<mu, gop, epc, erec, registryVars, ctxHasEvent, snapshot, snapshotAddr, ctxs,
                  maskVars,
                 reqVars, regcVars, genVars, gfVars>>

\* defer w.mu.Unlock()
Unlock(g) ==
  /\ ~fatal
  /\ gpc[g] = "unlock"
  /\ mu' = [mu EXCEPT !.w = NoHolder]
  /\ gpc' = [gpc EXCEPT ![g] = "done"]
  /\ UNCHANGED <<eventVars, gop, fatal, epc, erec, concFrame>>

\* --- emitWideEvent, the reads of the event in the order it makes them ---
EmitterRLock(from, to) ==
  /\ ~fatal
  /\ epc = from
  /\ CanRLock(mu)
  /\ mu' = [mu EXCEPT !.r = @ \cup {EmitterId}]
  /\ epc' = to
  /\ UNCHANGED <<eventVars, gpc, gop, fatal, erec, concFrame>>

EmitterRUnlock(from, to) ==
  /\ ~fatal
  /\ epc = from
  /\ mu' = [mu EXCEPT !.r = @ \ {EmitterId}]
  /\ epc' = to
  /\ UNCHANGED <<eventVars, gpc, gop, fatal, erec, concFrame>>

\* errCtx := wideEvent.GetError()
GetError_RLock == EmitterRLock("GetError_lock", "GetError_read")
GetError_Read ==
  /\ ~fatal
  /\ epc = "GetError_read"
  /\ erec' = [erec EXCEPT !.error = Error]
  /\ epc' = "GetError_unlock"
  /\ UNCHANGED <<eventVars, mu, gpc, gop, fatal, concFrame>>
GetError_RUnlock == EmitterRUnlock("GetError_unlock", "TraceID_read")

\* if wideEvent.TraceID != "" { ... wideEvent.TraceID }: the field is read
\* directly. While a SetTraceID is between its Lock and Unlock the read is
\* a data race and may see the old value, the new one or a torn string.
TraceID_Read ==
  /\ ~fatal
  /\ epc = "TraceID_read"
  /\ erec' \in
       {[erec EXCEPT !.traceID = v] :
          v \in {Str(TraceID)}
                  \cup UNION {{Str(gop[g].traceID), Torn} :
                         g \in {h \in Goroutines :
                                  InWriteSection(h) /\ gop[h].op = "SetTraceID"}}}
  /\ epc' = "GetUser_lock"
  /\ UNCHANGED <<eventVars, mu, gpc, gop, fatal, concFrame>>

\* user := wideEvent.GetUser()
GetUser_RLock == EmitterRLock("GetUser_lock", "GetUser_read")
GetUser_Read ==
  /\ ~fatal
  /\ epc = "GetUser_read"
  /\ erec' = [erec EXCEPT !.user = User]
  /\ epc' = "GetUser_unlock"
  /\ UNCHANGED <<eventVars, mu, gpc, gop, fatal, concFrame>>
GetUser_RUnlock == EmitterRUnlock("GetUser_unlock", "GetBusinessData_lock")

\* businessData := wideEvent.GetBusinessData()
GetBusinessData_RLock == EmitterRLock("GetBusinessData_lock", "GetBusinessData_read")
GetBusinessData_Read ==
  /\ ~fatal
  /\ epc = "GetBusinessData_read"
  /\ erec' = [erec EXCEPT !.business = Map(GetBusinessData(BusinessData))]
  /\ epc' = "GetBusinessData_unlock"
  /\ UNCHANGED <<eventVars, mu, gpc, gop, fatal, concFrame>>
GetBusinessData_RUnlock == EmitterRUnlock("GetBusinessData_unlock", "emitted")

InitConc ==
  /\ InitRegistry
  /\ NewWideEvent
  /\ ctxHasEvent = TRUE
  /\ callLog = << >>
  /\ snapshot = EmptyMap
  /\ snapshotAddr = NoAddr
  /\ ctxs = OnlyBackground
  /\ IdleGen
  /\ IdleGf
  /\ IdleMask
  /\ mu = Unlocked
  /\ gpc = [g \in Goroutines |-> "idle"]
  /\ gop = [g \in Goroutines |-> Unset]
  /\ fatal = FALSE
  /\ epc = "GetError_lock"
  /\ erec = [error |-> Unset, traceID |-> Unset, user |-> Unset, business |-> Unset]
  /\ IdleReq
  /\ IdleRegc

NextConc ==
  \/ \E g \in Goroutines : \E o \in GoOps(g) : Start(g, o)
  \/ \E g \in Goroutines : Lock(g)
  \/ \E g \in Goroutines : Write(g)
  \/ \E g \in Goroutines : Unlock(g)
  \/ GetError_RLock
  \/ GetError_Read
  \/ GetError_RUnlock
  \/ TraceID_Read
  \/ GetUser_RLock
  \/ GetUser_Read
  \/ GetUser_RUnlock
  \/ GetBusinessData_RLock
  \/ GetBusinessData_Read
  \/ GetBusinessData_RUnlock

SpecConc == InitConc /\ [][NextConc]_vars

AllReturned == \A g \in Goroutines : gpc[g] = "done"

\* C3: once every goroutine has returned from its enrichment call, a
\* GetBusinessData holds the key of each of them, with the value it wrote.
C3_NoLostWrite ==
  AllReturned
  => /\ ~fatal
     /\ \A g \in Goroutines :
          gop[g].op = "Enrich"
          => /\ gop[g].key \in DOMAIN GetBusinessData(BusinessData)
             /\ GetBusinessData(BusinessData)[gop[g].key] = gop[g].value

\* C3 witness: all goroutines enriched, each with its own key, and returned.
C3_Witness ==
  /\ AllReturned
  /\ \A g \in Goroutines : gop[g].op = "Enrich"
  /\ Cardinality(DOMAIN GetBusinessData(BusinessData)) = MaxGoroutines
  /\ MaxGoroutines >= 2

\* The (error, user, business data) of the event after the first i calls of
\* log have taken effect on a new event.
RECURSIVE Replay(_, _)
Replay(log, i) ==
  IF i = 0 THEN [error |-> Nil, user |-> Nil, business |-> EmptyMap]
  ELSE LET before == Replay(log, i - 1)
           o == log[i]
       IN  IF o.op = "Enrich"
             THEN [before EXCEPT !.business = Enrich(before.business, o.key, o.value)]
           ELSE IF o.op = "SetUser" THEN [before EXCEPT !.user = o.user]
           ELSE IF o.op = "SetError" THEN [before EXCEPT !.error = o.errCtx]
           ELSE before

\* C15: the (error, user, business data) that emitWideEvent has read when it
\* builds the record is the combination the event held at one instant.
C15_RecordIsOneInstant ==
  (epc = "emitted" /\ ~fatal)
  => \E i \in 0..Len(callLog) :
       /\ erec.error = Replay(callLog, i).error
       /\ erec.user = Replay(callLog, i).user
       /\ erec.business = Map(Replay(callLog, i).business)

\* C4: whenever a goroutine is about to read or write a mutable field of the
\* event while a sub-task has not finished, it holds mu: exclusively for a
\* write, at least shared for a read.
C4_AccessUnderLock ==
  (\E g \in Goroutines : gpc[g] # "done")
  => /\ \A g \in Goroutines : gpc[g] = "write" => mu.w = g
     /\ epc \in {"GetError_read", "TraceID_read", "GetUser_read", "GetBusinessData_read"}
          => EmitterId \in mu.r

\* ------------------------------------------------------------------------
\* SpecReq: one request through RecoverMiddleware, LoggingMiddleware and the
\* handler (middleware/logger.go, recover middleware, Middleware.Default)
\* ------------------------------------------------------------------------
K_bytes_out == <<"b","y","t","e","s","_","o","u","t">>
K_duration_ms == <<"d","u","r","a","t","i","o","n","_","m","s">>
K_environment == <<"e","n","v","i","r","o","n","m","e","n","t">>
K_function == <<"f","u","n","c","t","i","o","n">>
K_host == <<"h","o","s","t">>
K_ip == <<"i","p">>
K_items == <<"i","t","e","m","s">>
K_method == <<"m","e","t","h","o","d">>
K_outcome == <<"o","u","t","c","o","m","e">>
K_path == <<"p","a","t","h">>
K_pid == <<"p","i","d">>
K_remote_ip == <<"r","e","m","o","t","e","_","i","p">>
K_request_body == <<"r","e","q","u","e","s","t","_","b","o","d","y">>
K_request_cookies == <<"r","e","q","u","e","s","t","_","c","o","o","k","i","e","s">>
K_request_headers == <<"r","e","q","u","e","s","t","_","h","e","a","d","e","r","s">>
K_request_id == <<"r","e","q","u","e","s","t","_","i","d">>
K_request_params == <<"r","e","q","u","e","s","t","_","p","a","r","a","m","s">>
K_request_query == <<"r","e","q","u","e","s","t","_","q","u","e","r","y">>
K_response_headers == <<"r","e","s","p","o","n","s","e","_","h","e","a","d","e","r","s">>
K_response_size == <<"r","e","s","p","o","n","s","e","_","s","i","z","e">>
K_response_status == <<"r","e","s","p","o","n","s","e","_","s","t","a","t","u","s">>
K_service == <<"s","e","r","v","i","c","e">>
K_severity == <<"s","e","v","e","r","i","t","y">>
K_status_code == <<"s","t","a","t","u","s","_","c","o","d","e">>
K_trace_id == <<"t","r","a","c","e","_","i","d">>
K_traceparent == <<"t","r","a","c","e","p","a","r","e","n","t">>
K_user == <<"u","s","e","r">>
K_user_agent == <<"u","s","e","r","_","a","g","e","n","t">>
K_version == <<"v","e","r","s","i","o","n">>
K_error == <<"e","r","r","o","r">>
K_business_data == <<"b","u","s","i","n","e","s","s","_","d","a","t","a">>
NoError == [k |-> "noerror"]
\* echo.ErrNotFound and an error that is not an *echo.HTTPError.
ErrNotFound == [k |-> "err", code |-> 404, text |-> <<"N","o","t"," ","F","o","u","n","d">>]
ErrPlain == [k |-> "err", code |-> 500, text |-> <<"b","o","o","m">>]
HandlerErrors == {NoError, ErrNotFound, ErrPlain}

Statuses == {200, 201, 399, 400, 404, 499, 500, 503}
BodySize == 42
ErrorBodySize == 24
ElapsedMs == 5

\* echo's Response when the request enters the chain (Response.reset).
FreshResponse == [Status |-> 200, Size |-> 0, Committed |-> FALSE]

\* The response after c.JSON(code, ...) / a write of the error handler: the
\* first write commits the status, later ones are ignored.
WriteResponse(r, code, size) ==
  IF r.Committed THEN r ELSE [Status |-> code, Size |-> size, Committed |-> TRUE]

\* The requests tried: X-Trace-ID, X-User-ID and traceparent headers, a JSON
\* body, query parameters, path parameters, cookies.
Requests ==
  { [traceID |-> NoString, userID |-> NoString, traceparent |-> NoString,
     body |-> Nil, query |-> EmptyMap, params |-> EmptyMap, cookies |-> EmptyMap],
    [traceID |-> <<"t","1">>, userID |-> NoString, traceparent |-> NoString,
     body |-> Nil, query |-> EmptyMap, params |-> EmptyMap, cookies |-> EmptyMap],
    [traceID |-> NoString, userID |-> <<"u","1">>, traceparent |-> <<"0","0","-","a","b">>,
     body |-> Map([key \in {K_password} |-> Str(S_secret123)]),
     query |-> [key \in {<<"t","o","k","e","n">>} |-> S_abcde], params |-> EmptyMap, cookies |-> EmptyMap],
    [traceID |-> <<"t","1">>, userID |-> <<"u","1">>, traceparent |-> NoString,
     body |-> Nil, query |-> EmptyMap,
     params |-> [key \in {<<"i","d">>} |-> S_ab],
     cookies |-> [key \in {<<"s","e","s","s","i","o","n">>} |-> S_secret123]] }

\* captureHeaders(c.Request().Header): the first value of each header sent.
RequestHeaders(r) ==
  LET names == {<<"A","u","t","h","o","r","i","z","a","t","i","o","n">>}
                 \cup (IF r.traceID # NoString THEN {<<"X","-","T","r","a","c","e","-","I","d">>} ELSE {})
                 \cup (IF r.userID # NoString THEN {<<"X","-","U","s","e","r","-","I","d">>} ELSE {})
                 \cup (IF r.traceparent # NoString THEN {<<"T","r","a","c","e","p","a","r","e","n","t">>} ELSE {})
  IN  [name \in names |->
         IF name = <<"A","u","t","h","o","r","i","z","a","t","i","o","n">> THEN S_secret123
         ELSE IF name = <<"X","-","T","r","a","c","e","-","I","d">> THEN r.traceID
         ELSE IF name = <<"X","-","U","s","e","r","-","I","d">> THEN r.userID
         ELSE r.traceparent]

\* captureHeaders(c.Response().Header())
ResponseHeaders == [name \in {<<"X","-","R","e","q","u","e","s","t","-","I","d">>} |-> <<"r","1">>]

\* determineSeverity
determineSeverityAllInfo(statusCode) == <<"I","N","F","O">>
determineSeverity(statusCode) ==
  IF statusCode >= 500 THEN <<"E","R","R","O","R">>
  ELSE IF statusCode >= 400 THEN <<"W","A","R","N","I","N","G">>
  ELSE IF statusCode >= 300 THEN <<"I","N","F","O">>
  ELSE <<"I","N","F","O">>

\* BusinessData after bd received EnrichContextSafe(ctx, key, value) when
\* cond holds.
SafeIf(cond, bd, key, value) ==
  IF cond THEN EnrichContextSafe(bd, TRUE, key, value) ELSE bd

\* BusinessData after the enrichment calls LoggingMiddleware makes before it
\* calls the handler.
BusinessDataBeforeHandler(r) ==
  LET b1 == EnrichContextSafe(EmptyMap, TRUE, K_request_headers, StringMap(RequestHeaders(r)))
      b2 == SafeIf(r.body # Nil, b1, K_request_body, r.body)
      b3 == SafeIf(DOMAIN r.params # {}, b2, K_request_params, StringMap(r.params))
      b4 == SafeIf(DOMAIN r.query # {}, b3, K_request_query, StringMap(r.query))
      b5 == SafeIf(DOMAIN r.cookies # {}, b4, K_request_cookies, StringMap(r.cookies))
      b6 == EnrichContextMap(b5, TRUE,
              [key \in {K_host, K_ip, K_pid, K_user_agent} |->
                 IF key = K_host THEN Str(<<"l","o","c","a","l","h","o","s","t">>)
                 ELSE IF key = K_ip THEN Str(<<"1","0",".","0",".","0",".","1">>)
                 ELSE IF key = K_pid THEN IntVal(1)
                 ELSE Str(<<"c","u","r","l">>)])
      b7 == IF r.traceparent # NoString
              THEN EnrichContext(b6, TRUE, K_traceparent, Str(r.traceparent)) ELSE b6
      b8 == IF r.traceID # NoString
              THEN EnrichContext(b7, TRUE, K_trace_id, Str(r.traceID)) ELSE b7
  IN  EnrichContextMap(b8, TRUE,
        [key \in {K_service, K_version, K_environment} |->
           IF key = K_service THEN Str(<<"a","p","p">>)
           ELSE IF key = K_version THEN Str(<<"1",".","0">>)
           ELSE Str(<<"d","e","v">>)])

reqFrame == <<histVars, maskVars, concVars, regcVars, genVars, gfVars>>

\* LoggingMiddleware up to the call of the handler: the event is created,
\* stored in the context and enriched with the request data.
LoggingMiddleware_Before ==
  /\ rpc = "start"
  /\ BusinessData' = BusinessDataBeforeHandler(req)
  /\ TraceID' = req.traceID
  /\ User' = IF req.userID # NoString THEN [k |-> "user", ID |-> req.userID] ELSE Nil
  /\ Error' = Nil
  /\ RegistryAfterMask({StringMap(RequestHeaders(req))})
  /\ rpc' = "handler"
  /\ UNCHANGED <<req, resp, handlerErr, emitted, recoverLog, reqFrame>>

HandlerEnrichments ==
  { EmptyMap,
    [key \in {K_order_id} |-> IntVal(1)],
    [key \in {K_order_id, K_tier, K_items} |-> IntVal(2)] }
HandlerErrorContext ==
  [k |-> "error", Type |-> <<"D","a","t","a","b","a","s","e","E","r","r","o","r">>, Message |-> <<"q","u","e","r","y"," ","f","a","i","l","e","d">>, Retriable |-> TRUE]
PanicErrorContext ==
  [k |-> "error", Type |-> <<"P","a","n","i","c","E","r","r","o","r">>, Message |-> <<"R","e","q","u","e","s","t"," ","h","a","n","d","l","e","r"," ","p","a","n","i","c","k","e","d">>,
   Retriable |-> FALSE]

\* What the handler did to the event and the response before it returned or
\* panicked: "function" is written by the middleware just before the call.
HandlerEffects(data, setsError, writes, status) ==
  /\ BusinessData' = EnrichMap(Enrich(BusinessData, K_function, Str(<<"h","a","n","d","l","e","r">>)), data)
  /\ Error' = IF setsError THEN HandlerErrorContext ELSE Error
  /\ resp' = IF writes THEN WriteResponse(resp, status, BodySize) ELSE resp

\* err = next(c) returns.
HandlerReturns(data, setsError, writes, status, err) ==
  /\ rpc = "handler"
  /\ HandlerEffects(data, setsError, writes, status)
  /\ handlerErr' = err
  /\ rpc' = "handler_returned"
  /\ UNCHANGED <<registryVars, TraceID, User, req, emitted, recoverLog, reqFrame>>

\* next(c) panics: the deferred function of LoggingMiddleware recovers, sets
\* the PanicError context and panics again; the rest of LoggingMiddleware is
\* skipped.
HandlerPanics(data, writes, status) ==
  /\ rpc = "handler"
  /\ BusinessData' = EnrichMap(Enrich(BusinessData, K_function, Str(<<"h","a","n","d","l","e","r">>)), data)
  /\ resp' = IF writes THEN WriteResponse(resp, status, BodySize) ELSE resp
  /\ Error' = PanicErrorContext
  /\ rpc' = "panicking"
  /\ UNCHANGED <<registryVars, TraceID, User, req, handlerErr, emitted, recoverLog, reqFrame>>

\* emitWideEvent, the error descriptor: the one set on the event, or one
\* made from the error the handler returned when none was set.
SynthesizedErrorNever(errCtx, err) == errCtx
SynthesizedError(errCtx, err) ==
  IF err # NoError /\ errCtx = Nil
    THEN [k |-> "error", Type |-> <<"H","a","n","d","l","e","r","E","r","r","o","r">>,
          Message |-> err.text, Retriable |-> FALSE]
    ELSE errCtx

\* emitWideEvent, the outcome
OutcomeErrorOnly(errCtx, statusCode) ==
  IF errCtx # Nil THEN <<"e","r","r","o","r">> ELSE <<"s","u","c","c","e","s","s">>
Outcome(errCtx, statusCode) ==
  IF errCtx # Nil \/ statusCode >= 500
    THEN <<"e","r","r","o","r">> ELSE <<"s","u","c","c","e","s","s">>

\* emitWideEvent, the fields made of the business data: one logger.Any(key,
\* value) per entry, in the order the map happens to be ranged over.
RECURSIVE BusinessFields(_)
BusinessFieldsNested(businessData) ==
  IF DOMAIN businessData = {} THEN << >>
  ELSE << <<K_business_data, Map(businessData)>> >>
BusinessFields(businessData) ==
  IF DOMAIN businessData = {} THEN << >>
  ELSE LET key == CHOOSE k \in DOMAIN businessData : TRUE
       IN  << <<key, businessData[key]>> >>
             \o BusinessFields([k \in (DOMAIN businessData) \ {key} |-> businessData[k]])

\* emitWideEvent: the record handed to log.Error / log.Warn / log.Info.
EmittedRecord(bd, severity, err) ==
  LET statusCode == resp.Status
      bytesOut == resp.Size
      errCtx == SynthesizedError(Error, err)
      outcome == Outcome(errCtx, statusCode)
      core == << <<K_request_id, Str(<<"r","1">>)>>,
                 <<K_method, Str(<<"G","E","T">>)>>,
                 <<K_path, Str(<<"/","a","p","i">>)>>,
                 <<K_status_code, IntVal(statusCode)>>,
                 <<K_duration_ms, IntVal(ElapsedMs)>>,
                 <<K_bytes_out, IntVal(bytesOut)>>,
                 <<K_outcome, Str(outcome)>>,
                 <<K_severity, Str(severity)>>,
                 <<K_remote_ip, Str(<<"1","0",".","0",".","0",".","1">>)>>,
                 <<K_user_agent, Str(<<"c","u","r","l">>)>> >>
      trace == IF TraceID # NoString THEN << <<K_trace_id, Str(TraceID)>> >> ELSE << >>
      user == IF User # Nil THEN << <<K_user, User>> >> ELSE << >>
  IN  [ level |-> IF severity = <<"E","R","R","O","R">> THEN "Error"
                  ELSE IF severity = <<"W","A","R","N","I","N","G">> THEN "Warn" ELSE "Info",
        fields |-> core \o trace \o user,
        business |-> GetBusinessData(bd),
        error |-> errCtx,
        all |-> core \o trace \o user \o BusinessFields(GetBusinessData(bd))
                  \o (IF errCtx # Nil THEN << <<K_error, errCtx>> >> ELSE << >>),
        at |-> rpc ]

\* LoggingMiddleware after the handler returned: response data and severity
\* are added to the event, the record is emitted and err is returned.
LoggingMiddleware_After ==
  /\ rpc = "handler_returned"
  /\ LET severity == determineSeverity(resp.Status)
         b1 == EnrichContextSafe(BusinessData, TRUE, K_response_headers, StringMap(ResponseHeaders))
         b2 == EnrichContextMap(b1, TRUE,
                 [key \in {K_response_status, K_response_size} |->
                    IF key = K_response_status THEN IntVal(resp.Status) ELSE IntVal(resp.Size)])
         b3 == EnrichContextMap(b2, TRUE, [key \in {K_severity} |-> Str(severity)])
     IN  /\ BusinessData' = b3
         /\ emitted' = Append(emitted, EmittedRecord(b3, severity, handlerErr))
  /\ rpc' = "logging_returned"
  /\ UNCHANGED <<registryVars, TraceID, User, Error, req, resp, handlerErr, recoverLog, reqFrame>>

\* RecoverMiddleware when nothing panicked: return next(c).
RecoverMiddleware_Return ==
  /\ rpc = "logging_returned"
  /\ rpc' = "chain_returned"
  /\ UNCHANGED <<registryVars, eventVars, req, resp, handlerErr, emitted, recoverLog, reqFrame>>

\* RecoverMiddleware's deferred function: logs "Panic recovered" and answers
\* with response.Error (500); the middleware returns nil.
RecoverMiddleware_Recover ==
  /\ rpc = "panicking"
  /\ recoverLog' = Append(recoverLog, <<"P","a","n","i","c"," ","r","e","c","o","v","e","r","e","d">>)
  /\ resp' = WriteResponse(resp, 500, ErrorBodySize)
  /\ handlerErr' = NoError
  /\ rpc' = "chain_returned"
  /\ UNCHANGED <<registryVars, eventVars, req, emitted, reqFrame>>

\* echo's ServeHTTP once the chain returned: an error that reaches it is
\* given to the default HTTPErrorHandler, which writes the error's status
\* unless the response is already committed.
Echo_HandleError ==
  /\ rpc = "chain_returned"
  /\ resp' = IF handlerErr # NoError
               THEN WriteResponse(resp, handlerErr.code, ErrorBodySize)
               ELSE resp
  /\ rpc' = "done"
  /\ UNCHANGED <<registryVars, eventVars, req, handlerErr, emitted, recoverLog, reqFrame>>

InitReq ==
  /\ InitRegistry
  /\ NewWideEvent
  /\ ctxHasEvent = TRUE
  /\ callLog = << >>
  /\ snapshot = EmptyMap
  /\ snapshotAddr = NoAddr
  /\ ctxs = OnlyBackground
  /\ IdleGen
  /\ IdleGf
  /\ IdleMask
  /\ IdleConc
  /\ req \in Requests
  /\ rpc = "start"
  /\ resp = FreshResponse
  /\ handlerErr = NoError
  /\ emitted = << >>
  /\ recoverLog = << >>
  /\ IdleRegc

NextReq ==
  \/ LoggingMiddleware_Before
  \/ \E data \in HandlerEnrichments : \E setsError \in BOOLEAN : \E writes \in BOOLEAN :
       \E status \in Statuses : \E err \in HandlerErrors :
         HandlerReturns(data, setsError, writes, status, err)
  \/ \E data \in HandlerEnrichments : \E writes \in BOOLEAN : \E status \in Statuses :
       HandlerPanics(data, writes, status)
  \/ LoggingMiddleware_After
  \/ RecoverMiddleware_Return
  \/ RecoverMiddleware_Recover
  \/ Echo_HandleError

SpecReq == InitReq /\ [][NextReq]_vars

\* The value of the first field called name.
FieldValue(fields, name) ==
  fields[CHOOSE i \in 1..Len(fields) :
           /\ fields[i][1] = name
           /\ \A j \in 1..(i - 1) : fields[j][1] # name][2]

Panicked == Len(recoverLog) > 0

HasField(fields, name) == \E i \in 1..Len(fields) : fields[i][1] = name
S_ERROR == <<"E","R","R","O","R">>
S_WARNING == <<"W","A","R","N","I","N","G">>
S_INFO == <<"I","N","F","O">>
S_error == <<"e","r","r","o","r">>
S_success == <<"s","u","c","c","e","s","s">>

\* C5: a request whose handler returned without panicking has exactly one
\* emitted record, made after the handler returned, whose status code and
\* byte count are those of the response as it finally stands.
C5_EmittedOnceWithFinalStatus ==
  (rpc = "done" /\ ~Panicked)
  => /\ Len(emitted) = 1
     /\ emitted[1].at = "handler_returned"
     /\ FieldValue(emitted[1].fields, K_status_code) = IntVal(resp.Status)
     /\ FieldValue(emitted[1].fields, K_bytes_out) = IntVal(resp.Size)

\* C6: a request whose handler panicked has exactly one emitted record, and
\* that record carries the PanicError descriptor.
C6_PanicStillEmits ==
  (rpc = "done" /\ Panicked)
  => /\ Len(emitted) = 1
     /\ emitted[1].error = PanicErrorContext

\* C16: a record emitted with a status of 500 or above for an event on which
\* no error descriptor was set has outcome "error", severity "ERROR" and an
\* error descriptor with a non-empty message, whether or not the handler
\* returned an error.
C16_ServerErrorHasDescriptor ==
  (/\ Len(emitted) = 1
   /\ FieldValue(emitted[1].all, K_status_code).n >= 500
   /\ Error = Nil)
  => /\ FieldValue(emitted[1].all, K_outcome) = Str(S_error)
     /\ FieldValue(emitted[1].all, K_severity) = Str(S_ERROR)
     /\ HasField(emitted[1].all, K_error)
     /\ FieldValue(emitted[1].all, K_error).Message # NoString

\* C17: when the handler returned an error and no descriptor was set on the
\* event, the record carries a HandlerError descriptor whose message is the
\* error's text; when a descriptor was set, the record carries that one.
HandlerErrorOf(err) ==
  [k |-> "error", Type |-> <<"H","a","n","d","l","e","r","E","r","r","o","r">>,
   Message |-> err.text, Retriable |-> FALSE]
C17_SynthesizedOnlyWhenUnset ==
  Len(emitted) = 1
  => /\ (handlerErr # NoError /\ Error = Nil)
          => /\ HasField(emitted[1].all, K_error)
             /\ FieldValue(emitted[1].all, K_error) = HandlerErrorOf(handlerErr)
     /\ Error # Nil
          => /\ HasField(emitted[1].all, K_error)
             /\ FieldValue(emitted[1].all, K_error) = Error

C17_Witness ==
  /\ Len(emitted) = 1
  /\ handlerErr = ErrPlain
  /\ Error = Nil
  /\ FieldValue(emitted[1].all, K_error).Message = <<"b","o","o","m">>

\* C18: determineSeverity gives ERROR for a status of 500 or above, WARNING
\* for 400..499 and INFO for every status below 400, and the record is
\* logged at the level of the severity of its status: Error, Warn, Info.
MaxStatus == 600
ExpectedSeverity(statusCode) ==
  IF statusCode >= 500 THEN S_ERROR
  ELSE IF statusCode >= 400 /\ statusCode <= 499 THEN S_WARNING
  ELSE S_INFO
ExpectedLevel(severity) ==
  IF severity = S_ERROR THEN "Error" ELSE IF severity = S_WARNING THEN "Warn" ELSE "Info"
C18_SeverityByStatusClass ==
  /\ \A statusCode \in (0 - 2)..MaxStatus :
       determineSeverity(statusCode) = ExpectedSeverity(statusCode)
  /\ Len(emitted) = 1
       => LET statusCode == FieldValue(emitted[1].all, K_status_code).n
          IN  /\ FieldValue(emitted[1].all, K_severity) = Str(ExpectedSeverity(statusCode))
              /\ emitted[1].level = ExpectedLevel(ExpectedSeverity(statusCode))

C18_Witness ==
  /\ Len(emitted) = 1
  /\ FieldValue(emitted[1].all, K_status_code) = IntVal(404)
  /\ FieldValue(emitted[1].all, K_severity) = Str(S_WARNING)
  /\ emitted[1].level = "Warn"

\* C19: the outcome of the record is "error" exactly when the record holds
\* an error descriptor or its status code is 500 or above, and "success"
\* otherwise.
C19_OutcomeIffErrorOrServerStatus ==
  Len(emitted) = 1
  => LET isError == \/ HasField(emitted[1].all, K_error)
                    \/ FieldValue(emitted[1].all, K_status_code).n >= 500
     IN  FieldValue(emitted[1].all, K_outcome) = Str(IF isError THEN S_error ELSE S_success)

C19_Witness ==
  /\ Len(emitted) = 1
  /\ ~HasField(emitted[1].all, K_error)
  /\ FieldValue(emitted[1].all, K_status_code) = IntVal(503)
  /\ FieldValue(emitted[1].all, K_outcome) = Str(S_error)

C28_FieldNamesUnique ==
  \A r \in 1..Len(emitted) :
    \A i, j \in 1..Len(emitted[r].all) :
      emitted[r].all[i][1] = emitted[r].all[j][1] => i = j

\* ------------------------------------------------------------------------
\* SpecReg: one goroutine registering patterns with AddSensitiveField while
\* another calls isSensitiveField (masking.go)
\* ------------------------------------------------------------------------
N_CorpID == <<"C","o","r","p","_","I","D">>
RegisteredNames == {N_CorpID}
AskedNames == {K_password, K_UserPWD, K_email, <<"c","o","r","p","_","i","d","_","h","a","s","h">>}

Registrations == Len(SensitiveFields) - Len(BuiltinSensitiveFields)

regFrame == <<eventVars, histVars, maskVars, mu, gpc, gop, epc, erec, reqVars, genVars, gfVars>>

\* AddSensitiveField: SensitiveFields = append(SensitiveFields, lower(name))
AddSensitiveField_Append(fieldName) ==
  /\ ~fatal
  /\ wpc = "idle"
  /\ Registrations < MaxRegistrations
  /\ SensitiveFields' = Append(SensitiveFields, ToLower(fieldName))
  /\ wpc' = "make"
  /\ UNCHANGED <<sensitiveFieldsMap, sensitiveFieldsMapInit, fatal, widx, rdpc, rname,
                 rresult, rexpect, regFrame>>

\* initSensitiveFieldsMap: sensitiveFieldsMap = make(map[string]bool, ...)
initSensitiveFieldsMap_Make ==
  /\ ~fatal
  /\ wpc = "make"
  /\ sensitiveFieldsMap' = {}
  /\ widx' = 1
  /\ wpc' = "fill"
  /\ UNCHANGED <<SensitiveFields, sensitiveFieldsMapInit, fatal, rdpc, rname, rresult,
                 rexpect, regFrame>>

\* initSensitiveFieldsMap: one turn of the loop over SensitiveFields
initSensitiveFieldsMap_Insert ==
  /\ ~fatal
  /\ wpc = "fill"
  /\ widx <= Len(SensitiveFields)
  /\ sensitiveFieldsMap' = sensitiveFieldsMap \cup {ToLower(SensitiveFields[widx])}
  /\ widx' = widx + 1
  /\ UNCHANGED <<SensitiveFields, sensitiveFieldsMapInit, fatal, wpc, rdpc, rname, rresult,
                 rexpect, regFrame>>

\* initSensitiveFieldsMap and AddSensitiveField return
AddSensitiveField_Return ==
  /\ ~fatal
  /\ wpc = "fill"
  /\ widx > Len(SensitiveFields)
  /\ wpc' = "idle"
  /\ UNCHANGED <<registryVars, fatal, widx, rdpc, rname, rresult, rexpect, regFrame>>

\* isSensitiveField(fieldName) is called.
isSensitiveField_Call(fieldName) ==
  /\ ~fatal
  /\ rdpc = "idle"
  /\ rname' = fieldName
  /\ rexpect' = isSensitiveIn(BuildSensitiveFieldsMap(BuiltinSensitiveFields), fieldName)
  /\ rdpc' = "once"
  /\ UNCHANGED <<registryVars, fatal, wpc, widx, rresult, regFrame>>

\* sensitiveFieldsMapInit.Do(initSensitiveFieldsMap)
isSensitiveField_Once ==
  /\ ~fatal
  /\ rdpc = "once"
  /\ sensitiveFieldsMap' = IF sensitiveFieldsMapInit
                             THEN sensitiveFieldsMap
                             ELSE BuildSensitiveFieldsMap(SensitiveFields)
  /\ sensitiveFieldsMapInit' = TRUE
  /\ rdpc' = "exact"
  /\ UNCHANGED <<SensitiveFields, fatal, wpc, widx, rname, rresult, rexpect, regFrame>>

\* if sensitiveFieldsMap[lowerField] { return true }. A read of the map
\* while initSensitiveFieldsMap fills it is a data race that the runtime may
\* answer with "fatal error: concurrent map read and map write".
isSensitiveField_Exact ==
  /\ ~fatal
  /\ rdpc = "exact"
  /\ fatal' \in IF wpc = "fill" THEN BOOLEAN ELSE {FALSE}
  /\ IF ToLower(rname) \in sensitiveFieldsMap
       THEN rresult' = TRUE /\ rdpc' = "done"
       ELSE rresult' = FALSE /\ rdpc' = "scan"
  /\ UNCHANGED <<registryVars, wpc, widx, rname, rexpect, regFrame>>

\* for sensitive := range sensitiveFieldsMap { strings.Contains ... }
isSensitiveField_Scan ==
  /\ ~fatal
  /\ rdpc = "scan"
  /\ fatal' \in IF wpc = "fill" THEN BOOLEAN ELSE {FALSE}
  /\ rresult' = \E sensitive \in sensitiveFieldsMap : Contains(ToLower(rname), sensitive)
  /\ rdpc' = "done"
  /\ UNCHANGED <<registryVars, wpc, widx, rname, rexpect, regFrame>>

isSensitiveField_Return ==
  /\ ~fatal
  /\ rdpc = "done"
  /\ rdpc' = "idle"
  /\ UNCHANGED <<registryVars, fatal, wpc, widx, rname, rresult, rexpect, regFrame>>

InitReg ==
  /\ InitRegistry
  /\ NewWideEvent
  /\ ctxHasEvent = TRUE
  /\ callLog = << >>
  /\ snapshot = EmptyMap
  /\ snapshotAddr = NoAddr
  /\ ctxs = OnlyBackground
  /\ IdleGen
  /\ IdleGf
  /\ IdleMask
  /\ IdleReq
  /\ mu = Unlocked /\ gpc = << >> /\ gop = << >> /\ epc = "off" /\ erec = Unset
  /\ fatal = FALSE
  /\ wpc = "idle"
  /\ widx = 0
  /\ rdpc = "idle"
  /\ rname = NoString
  /\ rresult = FALSE
  /\ rexpect = FALSE

NextReg ==
  \/ \E fieldName \in RegisteredNames : AddSensitiveField_Append(fieldName)
  \/ initSensitiveFieldsMap_Make
  \/ initSensitiveFieldsMap_Insert
  \/ AddSensitiveField_Return
  \/ \E fieldName \in AskedNames : isSensitiveField_Call(fieldName)
  \/ isSensitiveField_Once
  \/ isSensitiveField_Exact
  \/ isSensitiveField_Scan
  \/ isSensitiveField_Return

SpecReg == InitReg /\ [][NextReg]_vars

\* C7: whatever AddSensitiveField is doing meanwhile, a call of
\* isSensitiveField with a name that matches a built-in pattern returns true:
\* the reader never looks the name up in a partly rebuilt pattern set.
C7_ReaderSeesCompleteSet ==
  (rdpc = "done" /\ rexpect) => rresult = TRUE

\* ------------------------------------------------------------------------
\* SpecPat: AddSensitiveField and isSensitiveField called one after the
\* other by one goroutine; callLog holds the calls made
\* ------------------------------------------------------------------------
N_mail == <<"M","a","i","l">>
PatternNames == {N_CorpID, N_mail}
ProbedNames == AskedNames \cup {N_CorpID}

patFrame == <<eventVars, ctxHasEvent, snapshot, snapshotAddr, ctxs, maskVars, concVars, reqVars,
              genVars, gfVars,
              wpc, widx, rdpc, rexpect>>

\* AddSensitiveField that appends the pattern and leaves the map as it is.
AddSensitiveFieldNoRebuild(fieldName) ==
  /\ Len(callLog) < MaxCalls
  /\ SensitiveFields' = Append(SensitiveFields, ToLower(fieldName))
  /\ callLog' = Append(callLog, [op |-> "AddSensitiveField", name |-> fieldName])
  /\ UNCHANGED <<sensitiveFieldsMap, sensitiveFieldsMapInit, rname, rresult, patFrame>>
\* AddSensitiveField(fieldName), from call to return: the lowercased name is
\* appended and initSensitiveFieldsMap builds the map anew (the sync.Once is
\* not involved).
AddSensitiveField(fieldName) ==
  /\ Len(callLog) < MaxCalls
  /\ SensitiveFields' = Append(SensitiveFields, ToLower(fieldName))
  /\ sensitiveFieldsMap' = BuildSensitiveFieldsMap(SensitiveFields')
  /\ callLog' = Append(callLog, [op |-> "AddSensitiveField", name |-> fieldName])
  /\ UNCHANGED <<sensitiveFieldsMapInit, rname, rresult, patFrame>>

\* isSensitiveField(fieldName), from call to return: the sync.Once builds the
\* map on the first call, then the exact lookup and the substring scan.
isSensitiveFieldCall(fieldName) ==
  /\ Len(callLog) < MaxCalls
  /\ sensitiveFieldsMap' = RegistryMap
  /\ sensitiveFieldsMapInit' = TRUE
  /\ rname' = fieldName
  /\ rresult' = isSensitiveIn(sensitiveFieldsMap', fieldName)
  /\ callLog' = Append(callLog, [op |-> "isSensitiveField", name |-> fieldName])
  /\ UNCHANGED <<SensitiveFields, patFrame>>

InitPat ==
  /\ InitRegistry
  /\ NewWideEvent
  /\ ctxHasEvent = TRUE
  /\ callLog = << >>
  /\ snapshot = EmptyMap
  /\ snapshotAddr = NoAddr
  /\ ctxs = OnlyBackground
  /\ IdleGen
  /\ IdleGf
  /\ IdleMask
  /\ IdleConc
  /\ IdleReq
  /\ IdleRegc

NextPat ==
  \/ \E fieldName \in PatternNames : AddSensitiveField(fieldName)
  \/ \E fieldName \in ProbedNames : isSensitiveFieldCall(fieldName)

SpecPat == InitPat /\ [][NextPat]_vars

\* The patterns of the registry as the calls made so far define it: the
\* built-in ones and every one registered, lowercased.
PatternsRegistered(log) ==
  {ToLower(BuiltinSensitiveFields[i]) : i \in 1..Len(BuiltinSensitiveFields)}
    \cup {ToLower(log[i].name) : i \in {j \in 1..Len(log) : log[j].op = "AddSensitiveField"}}

\* The lowercased name equals a pattern or contains one.
MatchesPattern(name, patterns) ==
  \E pattern \in patterns :
     ToLower(name) = pattern \/ Contains(ToLower(name), pattern)

\* C26: isSensitiveField(name) is true exactly when the lowercased name
\* equals or contains a built-in pattern or one registered so far; so once
\* AddSensitiveField(p) has returned every name containing p lowercased is
\* sensitive, and a name that was sensitive stays so.
C26_SensitiveIffMatches ==
  /\ \A name \in ProbedNames :
        isSensitiveField(name) <=> MatchesPattern(name, PatternsRegistered(callLog))
  /\ (Len(callLog) > 0 /\ callLog[Len(callLog)].op = "isSensitiveField")
        => (rresult <=> MatchesPattern(rname, PatternsRegistered(callLog)))

\* C26 witness: a name that was not sensitive is after the registration of
\* a pattern it contains in another case.
C26_Witness ==
  /\ Len(callLog) = 3
  /\ callLog[1] = [op |-> "isSensitiveField", name |-> <<"c","o","r","p","_","i","d","_","h","a","s","h">>]
  /\ callLog[2] = [op |-> "AddSensitiveField", name |-> N_CorpID]
  /\ callLog[3] = callLog[1]
  /\ rresult = TRUE
  /\ isSensitiveField(K_password)

\* ------------------------------------------------------------------------
\* SpecCtx: the context helpers and the facade called on contexts with and
\* without a wide event. callLog holds the last call only.
\* ------------------------------------------------------------------------
MaxContexts == 2

\* Whether ctx.Value(key) finds a binding: in ctx itself or in an ancestor.
RECURSIVE Value(_, _, _)
Value(cs, ctx, key) ==
  IF ctx = NilCtx THEN FALSE
  ELSE IF cs[ctx].key = key THEN TRUE
  ELSE Value(cs, cs[ctx].parent, key)

\* GetWideEvent(ctx) # nil.
GetWideEvent(cs, ctx) ==
  IF ctx = NilCtx THEN FALSE ELSE Value(cs, ctx, wideEventKey)

\* context.WithValue(ctx, key, _): a new context, child of ctx; by names
\* the helper that made it.
WithValue(cs, ctx, key, by) == Append(cs, [parent |-> ctx, key |-> key, by |-> by])

\* WithWideEvent that also binds the event in the context it was given.
WithWideEventInPlace(cs, ctx) ==
  WithValue([cs EXCEPT ![ctx].key = wideEventKey], ctx, wideEventKey, "WithWideEvent")
\* The contexts after WithWideEvent(ctx, event); the result is the last one.
WithWideEvent(cs, ctx) == WithValue(cs, ctx, wideEventKey, "WithWideEvent")

\* The contexts after WithRequestID(ctx, requestID).
WithRequestID(cs, ctx) == WithValue(cs, ctx, RequestIDKey, "WithRequestID")

Secrets == [key \in {K_password} |-> Str(S_secret123)]
Headers == [name \in {K_password} |-> S_secret123]

ctxFrame == <<TraceID, snapshot, snapshotAddr, maskVars, concVars, reqVars, genVars, gfVars, regcVars>>

WithWideEventCall(ctx) ==
  /\ Len(ctxs) < MaxContexts
  /\ ctxs' = WithWideEvent(ctxs, ctx)
  /\ callLog' = <<[op |-> "WithWideEvent", ctx |-> ctx]>>
  /\ UNCHANGED <<BusinessData, User, Error, ctxHasEvent, registryVars, ctxFrame>>

WithRequestIDCall(ctx) ==
  /\ Len(ctxs) < MaxContexts
  /\ ctxs' = WithRequestID(ctxs, ctx)
  /\ callLog' = <<[op |-> "WithRequestID", ctx |-> ctx]>>
  /\ UNCHANGED <<BusinessData, User, Error, ctxHasEvent, registryVars, ctxFrame>>

\* What every facade call does besides its own effect: it looks the event
\* up in ctx and leaves the contexts alone.
Lookup(ctx, name) ==
  /\ ctxHasEvent' = GetWideEvent(ctxs, ctx)
  /\ callLog' = <<[op |-> name, ctx |-> ctx]>>
  /\ UNCHANGED <<ctxs, ctxFrame>>

EnrichContext_On(ctx) ==
  /\ Lookup(ctx, "EnrichContext")
  /\ BusinessData' = EnrichContext(BusinessData, GetWideEvent(ctxs, ctx), K_tier, IntVal(1))
  /\ UNCHANGED <<User, Error, registryVars>>

EnrichContextMap_On(ctx) ==
  /\ Lookup(ctx, "EnrichContextMap")
  /\ BusinessData' = EnrichContextMap(BusinessData, GetWideEvent(ctxs, ctx),
                                      Put(EmptyMap, K_tier, IntVal(1)))
  /\ UNCHANGED <<User, Error, registryVars>>

EnrichContextMany_On(ctx) ==
  /\ Lookup(ctx, "EnrichContextMany")
  /\ BusinessData' = EnrichContextMany(BusinessData, GetWideEvent(ctxs, ctx),
                                       <<Str(K_tier), IntVal(1), Str(K_order_id)>>)
  /\ UNCHANGED <<User, Error, registryVars>>

EnrichContextWith_On(ctx) ==
  /\ Lookup(ctx, "EnrichContextWith")
  /\ BusinessData' = EnrichContextWith(BusinessData, GetWideEvent(ctxs, ctx),
                                       <<Map(Put(EmptyMap, K_tier, IntVal(1)))>>)
  /\ UNCHANGED <<User, Error, registryVars>>

EnrichContextSafe_On(ctx) ==
  /\ Lookup(ctx, "EnrichContextSafe")
  /\ BusinessData' = EnrichContextSafe(BusinessData, GetWideEvent(ctxs, ctx),
                                       K_data, Map(Secrets))
  /\ RegistryAfterMask({Map(Secrets)})
  /\ UNCHANGED <<User, Error>>

EnrichContextMapSafe_On(ctx) ==
  /\ Lookup(ctx, "EnrichContextMapSafe")
  /\ BusinessData' = EnrichContextMapSafe(BusinessData, GetWideEvent(ctxs, ctx), Map(Secrets))
  /\ RegistryAfterMask({Map(Secrets)})
  /\ UNCHANGED <<User, Error>>

EnrichContextWithSafe_On(ctx) ==
  /\ Lookup(ctx, "EnrichContextWithSafe")
  /\ BusinessData' = EnrichContextWithSafe(BusinessData, GetWideEvent(ctxs, ctx),
                                           <<Str(K_data), Map(Secrets)>>)
  /\ RegistryAfterMask({Map(Secrets)})
  /\ UNCHANGED <<User, Error>>

EnrichContextHeaders_On(ctx) ==
  /\ Lookup(ctx, "EnrichContextHeaders")
  /\ BusinessData' = EnrichContextHeaders(BusinessData, GetWideEvent(ctxs, ctx),
                                          K_data, Headers)
  /\ RegistryAfterMask({StringMap(Headers)})
  /\ UNCHANGED <<User, Error>>

SetUserContext_On(ctx) ==
  /\ Lookup(ctx, "SetUserContext")
  /\ User' = SetUserContext(User, GetWideEvent(ctxs, ctx), UserOf(1))
  /\ UNCHANGED <<BusinessData, Error, registryVars>>

SetErrorContext_On(ctx) ==
  /\ Lookup(ctx, "SetErrorContext")
  /\ Error' = SetErrorContext(Error, GetWideEvent(ctxs, ctx), ErrorOf(1))
  /\ UNCHANGED <<BusinessData, User, registryVars>>

InitCtx ==
  /\ InitRegistry
  /\ NewWideEvent
  /\ ctxHasEvent = FALSE
  /\ callLog = << >>
  /\ snapshot = EmptyMap
  /\ snapshotAddr = NoAddr
  /\ ctxs = OnlyBackground
  /\ IdleGen
  /\ IdleGf
  /\ IdleMask
  /\ IdleConc
  /\ IdleReq
  /\ IdleRegc

NextCtx ==
  \/ \E ctx \in 1..Len(ctxs) : WithWideEventCall(ctx)
  \/ \E ctx \in 1..Len(ctxs) : WithRequestIDCall(ctx)
  \/ \E ctx \in {NilCtx} \cup (1..Len(ctxs)) :
        \/ EnrichContext_On(ctx)
        \/ EnrichContextMap_On(ctx)
        \/ EnrichContextMany_On(ctx)
        \/ EnrichContextWith_On(ctx)
        \/ EnrichContextSafe_On(ctx)
        \/ EnrichContextMapSafe_On(ctx)
        \/ EnrichContextWithSafe_On(ctx)
        \/ EnrichContextHeaders_On(ctx)
        \/ SetUserContext_On(ctx)
        \/ SetErrorContext_On(ctx)

SpecCtx == InitCtx /\ [][NextCtx]_vars

\* Whether WithWideEvent was called to make ctx or one of its ancestors.
RECURSIVE Installed(_, _)
Installed(cs, ctx) ==
  IF ctx = NilCtx THEN FALSE
  ELSE cs[ctx].by = "WithWideEvent" \/ Installed(cs, cs[ctx].parent)

\* C25: GetWideEvent finds no event in nil and in a context that
\* WithWideEvent did not make, directly or through an ancestor; a facade call
\* on such a context changes nothing of the event; WithWideEvent changes no
\* existing context, so the context it was given stays without an event.
C25_NoEventNoEffect ==
  [][LET last == callLog'[1]
     IN  /\ \A ctx \in {NilCtx} \cup (1..Len(ctxs')) :
               ~Installed(ctxs', ctx) => ~GetWideEvent(ctxs', ctx)
         /\ (last.op \notin {"WithWideEvent", "WithRequestID"} /\ ~Installed(ctxs, last.ctx))
               => /\ eventVars' = eventVars
                  /\ ctxHasEvent' = FALSE
         /\ last.op = "WithWideEvent"
               => /\ SubSeq(ctxs', 1, Len(ctxs)) = ctxs
                  /\ GetWideEvent(ctxs', last.ctx) = GetWideEvent(ctxs, last.ctx)]_vars

\* C25 witness: the event was installed in a child of Background and written
\* through it; a Safe facade call on Background then found no event and
\* wrote nothing.
C25_Witness ==
  /\ Len(ctxs) >= 2
  /\ ctxs[2] = [parent |-> Background, key |-> wideEventKey, by |-> "WithWideEvent"]
  /\ callLog = <<[op |-> "EnrichContextSafe", ctx |-> Background]>>
  /\ ~ctxHasEvent
  /\ BusinessData = Put(EmptyMap, K_tier, IntVal(1))

\* ------------------------------------------------------------------------
\* SpecGen: generator.AccountNumber on an argument list and a run of random
\* digits, then validator.AccountNumber on what it returned
\* ------------------------------------------------------------------------
AccountNumberLength == 16

DigitChars == {Digits[i] : i \in 1..Len(Digits)}

\* int(char - '0') for a digit character
DigitValue(char) == (CHOOSE i \in 1..Len(Digits) : Digits[i] = char) - 1

\* char < '0' || char > '9' for no character of s. The loops range over the
\* runes of s; a rune that is not one byte has no digit among its bytes, so
\* the bytes decide the same.
OnlyDigits(s) == \A i \in 1..Len(s) : s[i] \in DigitChars

\* strconv.Itoa(n) for n >= 0
RECURSIVE Itoa(_)
Itoa(n) == IF n < 10 THEN <<Digits[n + 1]>> ELSE Itoa(n \div 10) \o <<Digits[(n % 10) + 1]>>

\* digit *= 2; if digit > 9 { digit -= 9 }
Doubled(digit) == IF digit * 2 > 9 THEN digit * 2 - 9 ELSE digit * 2

\* The sum both Luhn loops build: position counts from the right, from 1,
\* and the digits at the positions of parity doubledParity are doubled.
LuhnSum(digits, doubledParity) ==
  LET sum[i \in 0..Len(digits)] ==
        IF i = 0 THEN 0
        ELSE LET position == Len(digits) - i + 1
                 digit == digits[i]
             IN  sum[i - 1] + (IF position % 2 = doubledParity THEN Doubled(digit) ELSE digit)
  IN  sum[Len(digits)]

\* calculateLuhnCheckDigit doubling the digits the validator does not double.
calculateLuhnCheckDigitEven(digits) == (10 - (LuhnSum(digits, 0) % 10)) % 10
\* calculateLuhnCheckDigit(digits), digits without the check digit
calculateLuhnCheckDigit(digits) == (10 - (LuhnSum(digits, 1) % 10)) % 10

\* validator.Luhn(digits), digits with the check digit
Luhn(digits) == LuhnSum(digits, 0) % 10 = 0

NoErr == "nil"
ErrTooLong == "combined prefix and suffix length must be less than 16"
ErrPrefix == "prefix must contain only digits"
ErrSuffix == "suffix must contain only digits"

RECURSIVE Concat(_)
Concat(strings) ==
  IF Len(strings) = 0 THEN << >> ELSE strings[1] \o Concat(Tail(strings))

\* generator.AccountNumber(affix...), rand being the digits rand.Int returns
\* one after the other.
GenerateAccountNumber(affix, rand) ==
  LET prefix == IF Len(affix) > 0 THEN affix[1] ELSE << >>
      suffix == IF Len(affix) > 1 THEN affix[2] ELSE << >>
      randomLength == AccountNumberLength - Len(prefix) - Len(suffix) - 1
      digits == [i \in 1..Len(prefix) |-> DigitValue(prefix[i])]
                  \o SubSeq(rand, 1, randomLength)
                  \o [i \in 1..Len(suffix) |-> DigitValue(suffix[i])]
      all == Append(digits, calculateLuhnCheckDigit(digits))
  IN  IF Len(prefix) + Len(suffix) >= AccountNumberLength
        THEN [s |-> << >>, err |-> ErrTooLong]
      ELSE IF ~OnlyDigits(prefix) THEN [s |-> << >>, err |-> ErrPrefix]
      ELSE IF ~OnlyDigits(suffix) THEN [s |-> << >>, err |-> ErrSuffix]
      ELSE [s |-> Concat([i \in 1..Len(all) |-> Itoa(all[i])]), err |-> NoErr]

\* validator.AccountNumber(accountNumber)
ValidateAccountNumber(accountNumber) ==
  IF Len(accountNumber) # AccountNumberLength THEN FALSE
  ELSE IF ~OnlyDigits(accountNumber) THEN FALSE
  ELSE Luhn([i \in 1..Len(accountNumber) |-> DigitValue(accountNumber[i])])

D_99 == <<"9","9">>
D_88 == <<"8","8">>
D_453201 == <<"4","5","3","2","0","1">>
D_123456789 == <<"1","2","3","4","5","6","7","8","9">>
Prefixes ==
  { << >>, D_99, D_453201, <<"0">>, D_123456789, D_123456789 \o D_453201,
    D_123456789 \o D_453201 \o <<"7">>, D_123456789 \o D_123456789,
    <<"4","5","a","2">>, <<"xC3","xA9">>, <<"-","1">> }
Suffixes ==
  { << >>, D_88, <<"5">>, D_453201, D_123456789, <<"8","8","x">>, <<" ">> }
Affixes ==
  {<< >>} \cup {<<prefix>> : prefix \in Prefixes}
          \cup {<<prefix, suffix>> : prefix \in Prefixes, suffix \in Suffixes}
          \cup {<<D_99, D_88, <<"x">>>>}
RandomRuns ==
  {[i \in 1..(AccountNumberLength - 1) |-> (first + step * i) % 10] :
     first \in {0, 4, 9}, step \in {0, 1, 3}}

genFrame == <<registryVars, eventVars, histVars, maskVars, concVars, reqVars, regcVars, gfVars>>

GenerateAccountNumberCall ==
  /\ genpc = "call"
  /\ genOut' = GenerateAccountNumber(genIn, genRand)
  /\ genpc' = "generated"
  /\ UNCHANGED <<genIn, genRand, genValid, genFrame>>

ValidateAccountNumberCall ==
  /\ genpc = "generated"
  /\ genValid' = ValidateAccountNumber(genOut.s)
  /\ genpc' = "validated"
  /\ UNCHANGED <<genIn, genRand, genOut, genFrame>>

InitGen ==
  /\ InitRegistry
  /\ NewWideEvent
  /\ ctxHasEvent = TRUE
  /\ callLog = << >>
  /\ snapshot = EmptyMap
  /\ snapshotAddr = NoAddr
  /\ ctxs = OnlyBackground
  /\ IdleMask
  /\ IdleConc
  /\ IdleReq
  /\ IdleRegc
  /\ IdleGf
  /\ genIn \in Affixes
  /\ genRand \in RandomRuns
  /\ genOut = [s |-> << >>, err |-> NoErr]
  /\ genValid = FALSE
  /\ genpc = "call"

NextGen == GenerateAccountNumberCall \/ ValidateAccountNumberCall

SpecGen == InitGen /\ [][NextGen]_vars

Prefix == IF Len(genIn) > 0 THEN genIn[1] ELSE << >>
Suffix == IF Len(genIn) > 1 THEN genIn[2] ELSE << >>

MaxProcesses == 2

Processes == 1..MaxProcesses

\* How Start of a process behaves: FuncProcess.Start blocks until the
\* context is done and returns nil; EchoProcess.Start does the same unless
\* the server fails, when it returns the error.
ProcessKinds == {"FuncProcess", "EchoProcess"}

gfFrame == <<registryVars, eventVars, histVars, maskVars, concVars, reqVars, regcVars, genVars>>

\* startgroup.Go(func() error { ... process.Start(ctx) ... }) for process p;
\* after the last one Graceful goes on to startgroup.Wait().
Graceful_Go(p) ==
  /\ gfpc = "start"
  /\ proc[p] = "none"
  /\ proc' = [proc EXCEPT ![p] = "running"]
  /\ gfpc' = IF \A q \in Processes \ {p} : proc[q] # "none" THEN "wait" ELSE "start"
  /\ UNCHANGED <<procKind, sigDone, grpDone, grpErr, hooks, gfFrame>>

\* SIGINT or SIGTERM arrives: the signal context is done, and with it the
\* context of the start group, its child.
Signal ==
  /\ gfpc \notin {"off", "done"}
  /\ ~sigDone
  /\ sigDone' = TRUE
  /\ grpDone' = TRUE
  /\ UNCHANGED <<gfpc, proc, procKind, grpErr, hooks, gfFrame>>

\* Start of p returns nil: <-ctx.Done() let it go.
Start_ReturnNil(p) ==
  /\ proc[p] = "running"
  /\ grpDone
  /\ proc' = [proc EXCEPT ![p] = "returned"]
  /\ UNCHANGED <<gfpc, procKind, sigDone, grpDone, grpErr, hooks, gfFrame>>

\* Start of p returns an error: the group keeps the first error and cancels
\* its context.
Start_ReturnErr(p) ==
  /\ proc[p] = "running"
  /\ procKind[p] = "EchoProcess"
  /\ proc' = [proc EXCEPT ![p] = "failed"]
  /\ grpErr' = TRUE
  /\ grpDone' = TRUE
  /\ UNCHANGED <<gfpc, procKind, sigDone, hooks, gfFrame>>

\* startgroup.Wait() returns once every goroutine of the group returned; it
\* cancels the group's context. With an error Graceful returns.
Graceful_Wait ==
  /\ gfpc = "wait"
  /\ \A p \in Processes : proc[p] \in {"returned", "failed"}
  /\ grpDone' = TRUE
  /\ gfpc' = IF grpErr THEN "done" ELSE "startupHook"
  /\ UNCHANGED <<proc, procKind, sigDone, grpErr, hooks, gfFrame>>

\* What is noted when a hook runs: whether the signal had arrived and the
\* processes whose Start had not returned.
HookRun(name) ==
  [hook |-> name, signalled |-> sigDone, running |-> {p \in Processes : proc[p] = "running"}]

\* o.startupHook()
Graceful_StartupHook ==
  /\ gfpc = "startupHook"
  /\ hooks' = Append(hooks, HookRun("startup"))
  /\ gfpc' = "block"
  /\ UNCHANGED <<proc, procKind, sigDone, grpDone, grpErr, gfFrame>>

\* <-ctx.Done()
Graceful_Block ==
  /\ gfpc = "block"
  /\ grpDone
  /\ gfpc' = "shutdownHook"
  /\ UNCHANGED <<proc, procKind, sigDone, grpDone, grpErr, hooks, gfFrame>>

\* o.shutdownHook(); then the stop group is set up.
Graceful_ShutdownHook ==
  /\ gfpc = "shutdownHook"
  /\ hooks' = Append(hooks, HookRun("shutdown"))
  /\ gfpc' = "stop"
  /\ UNCHANGED <<proc, procKind, sigDone, grpDone, grpErr, gfFrame>>

\* process.Stop(stopCtx) of p, run in the stop group; it may fail.
Graceful_Stop(p, ok) ==
  /\ gfpc = "stop"
  /\ proc[p] = "returned"
  /\ proc' = [proc EXCEPT ![p] = IF ok THEN "stopped" ELSE "stop failed"]
  /\ UNCHANGED <<gfpc, procKind, sigDone, grpDone, grpErr, hooks, gfFrame>>

\* stopgroup.Wait() returns; Graceful returns.
Graceful_Return ==
  /\ gfpc = "stop"
  /\ \A p \in Processes : proc[p] \in {"stopped", "stop failed"}
  /\ gfpc' = "done"
  /\ UNCHANGED <<proc, procKind, sigDone, grpDone, grpErr, hooks, gfFrame>>

InitGf ==
  /\ InitRegistry
  /\ NewWideEvent
  /\ ctxHasEvent = TRUE
  /\ callLog = << >>
  /\ snapshot = EmptyMap
  /\ snapshotAddr = NoAddr
  /\ ctxs = OnlyBackground
  /\ IdleMask
  /\ IdleConc
  /\ IdleReq
  /\ IdleRegc
  /\ IdleGen
  /\ gfpc = "start"
  /\ proc = [p \in Processes |-> "none"]
  /\ procKind \in [Processes -> ProcessKinds]
  /\ sigDone = FALSE
  /\ grpDone = FALSE
  /\ grpErr = FALSE
  /\ hooks = << >>

NextGf ==
  \/ \E p \in Processes : Graceful_Go(p)
  \/ Signal
  \/ \E p \in Processes : Start_ReturnNil(p)
  \/ \E p \in Processes : Start_ReturnErr(p)
  \/ Graceful_Wait
  \/ Graceful_StartupHook
  \/ Graceful_Block
  \/ Graceful_ShutdownHook
  \/ \E p \in Processes : \E ok \in BOOLEAN : Graceful_Stop(p, ok)
  \/ Graceful_Return

SpecGf == InitGf /\ [][NextGf]_vars

\* C29: when no Start returned an error the startup hook runs while every
\* process is still running and before a termination signal arrived, and
\* before the shutdown hook; it does not run when a Start returned an error.
C29_StartupHookWhileRunning ==
  \A i \in 1..Len(hooks) :
    hooks[i].hook = "startup"
      => /\ ~grpErr
         /\ ~hooks[i].signalled
         /\ hooks[i].running = Processes
         /\ \A j \in 1..Len(hooks) : hooks[j].hook = "shutdown" => i < j

====
